---- MODULE Spec2Model ----
(***************************************************************************)
(* Blobberman: the lockstep relay hub (backend/pkg/websocket) and the      *)
(* deterministic simulation engine (frontend game/simulation).             *)
(*                                                                         *)
(* Numbers.  TLC integers are 32 bit, and the engine computes on IEEE      *)
(* doubles.  Positions are kept in micro-units (1.0 = 1000000), the fuse   *)
(* and speed multipliers in thousandths, and 32-bit words of the PRNG as   *)
(* a pair <<hi, lo>> of 16-bit halves.                                     *)
(***************************************************************************)
EXTENDS Integers, Sequences, FiniteSets, TLC

VARIABLES
    engines,        \* engine instance -> GameState held by that instance
    globalRandom,   \* utils/random.ts: the module-level generator (Null before initializeRandom)
    ticks,          \* the tick records fed to the engines so far
    applied,        \* engine instance -> number of ticks it has applied
    call,           \* the last processGameTick call: its engine, its tick number and
                    \* the tick of the state it was given
    hub,            \* websocket.Hub: its fields, the position of its Run loop and
                    \* the goroutines it started
    conns,          \* connection -> common.Client and the position of its read pump
    log             \* what an observer of the relay has noted: per connection the
                    \* ticks its sink was given since the connection announced its
                    \* id, the inputs AddInput accepted since the last record, the
                    \* numbers of inputs, records and display names so far

vars == <<engines, globalRandom, ticks, applied, call, hub, conns, log>>

\* the engine driven without a relay
NoRelay == hub = <<>> /\ conns = <<>> /\ log = <<>>

Null == "null"

(***************************************************************************)
(* utils/random.ts: DeterministicRandom on 32-bit words                    *)
(***************************************************************************)
W16 == 256 * 256

RECURSIVE XorN(_, _, _)
XorN(a, b, n) ==
    IF n = 0 THEN 0
    ELSE (((a % 2) + (b % 2)) % 2) + 2 * XorN(a \div 2, b \div 2, n - 1)

RECURSIVE OrN(_, _, _)
OrN(a, b, n) ==
    IF n = 0 THEN 0
    ELSE (IF (a % 2) + (b % 2) > 0 THEN 1 ELSE 0) + 2 * OrN(a \div 2, b \div 2, n - 1)

Pow2(k) == CASE k = 0 -> 1 [] k = 1 -> 2 [] k = 2 -> 4 [] k = 7 -> 128
             [] k = 9 -> 512 [] k = 14 -> 16384 [] k = 15 -> 32768

\* bitwise tables on 4-bit digits, index 16 * a + b
XorNibble == [i \in 0 .. 255 |-> XorN(i \div 16, i % 16, 4)]
OrNibble == [i \in 0 .. 255 |-> OrN(i \div 16, i % 16, 4)]

Xor16(a, b) ==
      XorNibble[16 * (a % 16) + (b % 16)]
    + 16 * XorNibble[16 * ((a \div 16) % 16) + ((b \div 16) % 16)]
    + 256 * XorNibble[16 * ((a \div 256) % 16) + ((b \div 256) % 16)]
    + 4096 * XorNibble[16 * (a \div 4096) + (b \div 4096)]

\* a ^ b on 32-bit words
Xor32(a, b) == <<Xor16(a[1], b[1]), Xor16(a[2], b[2])>>

\* a | k for a constant k < 256
Or32(a, k) ==
    <<a[1], (a[2] \div 256) * 256
            + OrNibble[16 * (a[2] % 16) + (k % 16)]
            + 16 * OrNibble[16 * ((a[2] \div 16) % 16) + (k \div 16)]>>

\* a >>> k, 0 < k < 16
Shr32(a, k) ==
    <<a[1] \div Pow2(k), (a[2] \div Pow2(k)) + (a[1] % Pow2(k)) * Pow2(16 - k)>>

\* (a + b) mod 2^32
Add32(a, b) ==
    LET lo == a[2] + b[2]
    IN  <<(a[1] + b[1] + lo \div W16) % W16, lo % W16>>

\* Math.imul(a, b): the low 32 bits of the product, by bytes
Imul32(a, b) ==
    LET a0 == a[2] % 256  a1 == a[2] \div 256  a2 == a[1] % 256  a3 == a[1] \div 256
        b0 == b[2] % 256  b1 == b[2] \div 256  b2 == b[1] % 256  b3 == b[1] \div 256
        c0 == a0 * b0
        c1 == a0 * b1 + a1 * b0
        c2 == a0 * b2 + a1 * b1 + a2 * b0
        c3 == a0 * b3 + a1 * b2 + a2 * b1 + a3 * b0
        l  == c0 + (c1 % 256) * 256
        h  == (l \div W16) + (c1 \div 256) + c2 + (c3 % 256) * 256
    IN  <<h % W16, l % W16>>

\* 0x6D2B79F5
MULBERRY_INC == <<27947, 31221>>

\* the three mixing steps of DeterministicRandom.random()
Mix15(t) == Imul32(Xor32(t, Shr32(t, 15)), Or32(t, 1))
Mix7(t) == Xor32(t, Add32(t, Imul32(Xor32(t, Shr32(t, 7)), Or32(t, 61))))
Mix14(t) == Xor32(t, Shr32(t, 14))

\* DeterministicRandom.random(): the new state, which is also the 32-bit
\* numerator of the result (result = state / 2^32)
RandomStep(state) == Mix14(Mix7(Mix15(Add32(state, MULBERRY_INC))))

\* DEFAULT_GAME_SEED = 1234567890 = 18838 * 65536 + 722, as `seed >>> 0`
DEFAULT_GAME_SEED == <<18838, 722>>

\* new DeterministicRandom(seed)
initializeRandom(seed) == seed

\* r / 2^32 < num / den   (randomChance: this.random() < probability)
FractionBelow(r, num, den) ==
    LET a == num * W16
        q == a \div den
        m == a % den
    IN  r[1] < q \/ (r[1] = q /\ r[2] * den < m * W16)

\* Math.floor(r / 2^32 * n) for n >= 0   (randomInt: floor(random() * (max - min)))
ScaleFloor(r, n) == (r[1] * n + ((r[2] * n) \div W16)) \div W16


(***************************************************************************)
(* game/simulation.ts: constants                                           *)
(***************************************************************************)
GRID_SIZE == 40
BOMB_TIMER == 60
EXPLOSION_DURATION == 20
POWERUP_IMMUNITY_DURATION == 20
EXTRA_BOMB_MAX == 5
LONGER_SPLAT_MAX == 6
\* thousandths: SHORTER_FUSE_MIN = 0.5, SPEED_BOOST_MAX = 1.3
SHORTER_FUSE_MIN == 500
SPEED_BOOST_MAX == 1300
\* micro-units: PLAYER_COLLISION_RADIUS = 0.4 and 0.4 * cos(pi / 4)
PLAYER_COLLISION_RADIUS == 400000
PLAYER_COLLISION_DIAG == 282843
UNIT == 1000 * 1000

(***************************************************************************)
(* createInitialGrid: rows y = 0 .. size-1 of cells x = 0 .. size-1, the   *)
(* draws of the generator taken in that order.  A grid is a tuple of rows  *)
(* of cell contents, grid[y + 1][x + 1] for the source's grid[y][x].       *)
(***************************************************************************)
Abs(n) == IF n < 0 THEN -n ELSE n

\* a generated cell with the generator after its draws
Cell(content, rng) == [cells |-> <<content>>, rng |-> rng]
BreakableIf(chance) == IF chance THEN "breakableWall" ELSE "empty"

\* distFromCenter < size / 3.5, squared and scaled by 4 * 49
inCenter(size, x, y) ==
    ((2 * x - size) * (2 * x - size) + (2 * y - size) * (2 * y - size)) * 49 < 16 * size * size
inCorner(size, x, y) ==
    \/ (4 * x < size /\ 4 * y < size)
    \/ (4 * x > 3 * size /\ 4 * y < size)
    \/ (4 * x < size /\ 4 * y > 3 * size)
    \/ (4 * x > 3 * size /\ 4 * y > 3 * size)
onDiagonal(size, x, y) == Abs(x - y) < 2 \/ Abs(x + y - size) < 2

\* the last branch, `else if (randomChance(0.5))`, on its draw r
ScatteredCell(r) == Cell(BreakableIf(FractionBelow(r, 50, 100)), r)

\* an inner cell (x, y), r its first draw
InnerCell(size, x, y, r) ==
    IF inCenter(size, x, y)
    THEN Cell(BreakableIf(FractionBelow(r, 15, 100) /\ ((x % 3) = 0 \/ (y % 3) = 0)), r)
    ELSE IF inCorner(size, x, y)
    THEN Cell(BreakableIf(FractionBelow(r, 80, 100) /\ ((x % 3) # 0 \/ (y % 3) # 0)), r)
    ELSE IF onDiagonal(size, x, y)
    THEN Cell(BreakableIf(FractionBelow(r, 30, 100)), r)
    ELSE IF ((x % 3) = 0) # ((y % 3) = 0)
    THEN IF FractionBelow(r, 70, 100) THEN Cell("breakableWall", r)
         ELSE ScatteredCell(RandomStep(r))
    ELSE ScatteredCell(r)

\* the content of cell (x, y) and the generator after its draws
GridCellContent(size, x, y, rng) ==
    IF x = 0 \/ y = 0 \/ x = size - 1 \/ y = size - 1
    THEN Cell("wall", rng)
    ELSE IF ((x % 6) = 0 /\ (y % 6) = 0) \/ ((x % 12) = 6 /\ (y % 12) = 6)
    THEN Cell("wall", rng)
    ELSE InnerCell(size, x, y, RandomStep(rng))

\* the cells lo .. hi in generation order (cell n = y * size + x), by
\* halves: their contents and the generator after their draws
RECURSIVE GridCells(_, _, _, _)
RECURSIVE GridCellsAfter(_, _, _, _)
GridCells(size, lo, hi, rng) ==
    IF lo = hi THEN GridCellContent(size, lo % size, lo \div size, rng)
    ELSE GridCellsAfter(size, GridCells(size, lo, (lo + hi) \div 2, rng),
                        ((lo + hi) \div 2) + 1, hi)

\* the cells `left` followed by the cells lo .. hi
GridCellsAfter(size, left, lo, hi) ==
    IF Len(left.cells) > 0
    THEN [GridCells(size, lo, hi, left.rng) EXCEPT !.cells = left.cells \o @]
    ELSE left

\* the rows of the grid from its cells in generation order
GridOfCells(size, all) ==
    [ grid |-> [y \in 1 .. size |-> [x \in 1 .. size |-> all.cells[(y - 1) * size + x]]],
      rng |-> all.rng ]

createInitialGrid(size, rng) == GridOfCells(size, GridCells(size, 0, size * size - 1, rng))


(***************************************************************************)
(* Game state.  A Map is a sequence in insertion order (players) or, for   *)
(* paintedCounts, a function on the keys inserted so far: its keys are     *)
(* inserted together with the players (a new player's set(id, 0)), so its  *)
(* iteration order is the players' order.  grid.content is the matrix of   *)
(* cell contents (<<>> before the grid is created); grid.paintedBy maps    *)
(* the painted cells <<cellX, cellY>> to their player, an absent cell      *)
(* having paintedBy null.                                                  *)
(***************************************************************************)
createInitialGameState ==
    [ players |-> <<>>,
      grid |-> [content |-> <<>>, paintedBy |-> <<>>],
      bombs |-> <<>>,
      explosions |-> <<>>,
      powerUps |-> <<>>,
      tick |-> 0,
      maxTicks |-> 0,
      tickInterval |-> 0,
      gridSize |-> GRID_SIZE,
      paintedCounts |-> <<>>,
      randomInitialized |-> FALSE,
      gameOver |-> FALSE,
      winner |-> Null ]

\* players.has(id), players.get(id)
HasPlayer(s, id) == \E i \in 1 .. Len(s.players) : s.players[i].playerId = id
PlayerIndex(s, id) == CHOOSE i \in 1 .. Len(s.players) : s.players[i].playerId = id
GetPlayer(s, id) == s.players[PlayerIndex(s, id)]
PlayerIds(s) == {s.players[i].playerId : i \in 1 .. Len(s.players)}

\* paintedCounts.get(id) || 0
PaintedCount(s, id) == IF id \in DOMAIN s.paintedCounts THEN s.paintedCounts[id] ELSE 0
SetPaintedCount(s, id, n) ==
    [s EXCEPT !.paintedCounts = (id :> n) @@ s.paintedCounts]

\* grid[cellY][cellX].content and .paintedBy
CellContent(grid, cellX, cellY) == grid.content[cellY + 1][cellX + 1]
CellPaintedBy(grid, cellX, cellY) ==
    IF <<cellX, cellY>> \in DOMAIN grid.paintedBy THEN grid.paintedBy[<<cellX, cellY>>] ELSE Null
SetCellContent(grid, cellX, cellY, content) ==
    [grid EXCEPT !.content[cellY + 1][cellX + 1] = content]
SetCellPaintedBy(grid, cellX, cellY, id) ==
    [grid EXCEPT !.paintedBy =
        IF id = Null
        THEN [c \in DOMAIN grid.paintedBy \ {<<cellX, cellY>>} |-> grid.paintedBy[c]]
        ELSE (<<cellX, cellY>> :> id) @@ grid.paintedBy]

\* Math.floor(v + GRID_SIZE / 2) for a coordinate in micro-units
CellOf(v) == (2 * v + GRID_SIZE * UNIT) \div (2 * UNIT)
\* getCellCoords
getCellCoords(x, y) == [cellX |-> CellOf(x), cellY |-> CellOf(y)]
\* the centre of a cell: cell - gridSize / 2 + 0.5
CellCentre(cell) == ((2 * cell - GRID_SIZE + 1) * UNIT) \div 2

InGrid(cellX, cellY) == cellX >= 0 /\ cellY >= 0 /\ cellX < GRID_SIZE /\ cellY < GRID_SIZE

\* isValidCell
isValidCell(grid, x, y) ==
    LET c == getCellCoords(x, y)
    IN  InGrid(c.cellX, c.cellY) /\ CellContent(grid, c.cellX, c.cellY) = "empty"

\* the eight sample points of canMoveTo, angle = 0, pi/4, ..., 7 pi/4
CollisionOffsets ==
    << <<PLAYER_COLLISION_RADIUS, 0>>,
       <<PLAYER_COLLISION_DIAG, PLAYER_COLLISION_DIAG>>,
       <<0, PLAYER_COLLISION_RADIUS>>,
       <<-PLAYER_COLLISION_DIAG, PLAYER_COLLISION_DIAG>>,
       <<-PLAYER_COLLISION_RADIUS, 0>>,
       <<-PLAYER_COLLISION_DIAG, -PLAYER_COLLISION_DIAG>>,
       <<0, -PLAYER_COLLISION_RADIUS>>,
       <<PLAYER_COLLISION_DIAG, -PLAYER_COLLISION_DIAG>> >>

canMoveTo(grid, x, y) ==
    /\ isValidCell(grid, x, y)
    /\ \A k \in 1 .. Len(CollisionOffsets) :
          isValidCell(grid, x + CollisionOffsets[k][1], y + CollisionOffsets[k][2])


(***************************************************************************)
(* Power-up spawn (utils/random.ts: position hashes)                       *)
(***************************************************************************)
PowerUpTypes ==
    <<"extraBomb", "longerSplat", "shorterFuse", "speedBoost", "splatShield", "splashJump">>

\* deterministicRandomFromPosition(x, y) < probability, in ten-thousandths
willSpawnPowerUpAtPosition(probability, x, y) ==
    ((x * 1987) + (y * 27689)) % 10000 < probability

\* POWERUP_SPAWN_CHANCE = 0.4, in ten-thousandths
POWERUP_SPAWN_CHANCE == 4000

shouldSpawnPowerUp(s, cellX, cellY) ==
    willSpawnPowerUpAtPosition(POWERUP_SPAWN_CHANCE, cellX, cellY)

getPowerUpTypeAtPosition(options, x, y) ==
    options[((((x * 1987) + (y * 27689) + (x * y * 31)) % Len(options)) % Len(options)) + 1]

spawnPowerUp(s, cellX, cellY) ==
    [s EXCEPT !.powerUps = Append(@,
        [ type |-> getPowerUpTypeAtPosition(PowerUpTypes, cellX, cellY),
          x |-> CellCentre(cellX),
          y |-> CellCentre(cellY),
          spawnedAt |-> s.tick ])]

(***************************************************************************)
(* resetPlayerPaintedAreas                                                 *)
(***************************************************************************)
ResetStats(player) ==
    [player EXCEPT
        !.maxBombs = 1,
        !.explosionSize = 3,
        !.fuseMultiplier = 1000,
        !.powerUps = <<>>,
        !.speedMultiplier = 1000,
        !.speedBoostEndTick = 0,
        !.hasShield = FALSE,
        !.shieldEndTick = 0,
        !.canJump = FALSE,
        !.diagonalDirection = Null]

ClearPaintedBy(grid, playerId) ==
    [grid EXCEPT !.paintedBy =
        [c \in {d \in DOMAIN grid.paintedBy : grid.paintedBy[d] # playerId} |-> grid.paintedBy[c]]]

resetPlayerPaintedAreas(s, playerId) ==
    LET cleared == SetPaintedCount([s EXCEPT !.grid = ClearPaintedBy(s.grid, playerId)], playerId, 0)
    IN  IF HasPlayer(cleared, playerId)
        THEN [cleared EXCEPT !.players[PlayerIndex(s, playerId)] = ResetStats(@)]
        ELSE cleared

(***************************************************************************)
(* paintExplosionCells                                                     *)
(***************************************************************************)
\* a variant of PaintCell that leaves the count of the previous painter as it is
PaintCellKeepingPrevCount(s, playerId, x, y) ==
    LET c == getCellCoords(x, y)
    IN  IF /\ InGrid(c.cellX, c.cellY)
           /\ CellContent(s.grid, c.cellX, c.cellY) = "empty"
           /\ CellPaintedBy(s.grid, c.cellX, c.cellY) # playerId
        THEN SetPaintedCount(
                 [s EXCEPT !.grid = SetCellPaintedBy(s.grid, c.cellX, c.cellY, playerId)],
                 playerId, PaintedCount(s, playerId) + 1)
        ELSE s

\* a variant of PaintCell that counts a cell the player has already painted again
PaintCellCountingAgain(s, playerId, x, y) ==
    LET c == getCellCoords(x, y)
        prev == CellPaintedBy(s.grid, c.cellX, c.cellY)
        s1 == IF prev # Null /\ prev # playerId
              THEN SetPaintedCount(s, prev,
                       IF PaintedCount(s, prev) - 1 > 0 THEN PaintedCount(s, prev) - 1 ELSE 0)
              ELSE s
    IN  IF InGrid(c.cellX, c.cellY) /\ CellContent(s.grid, c.cellX, c.cellY) = "empty"
        THEN SetPaintedCount(
                 [s1 EXCEPT !.grid = SetCellPaintedBy(s1.grid, c.cellX, c.cellY, playerId)],
                 playerId, PaintedCount(s1, playerId) + 1)
        ELSE s

\* one cell of an explosion of playerId: the centre or an arm
PaintCell(s, playerId, x, y) ==
    LET c == getCellCoords(x, y)
        prev == CellPaintedBy(s.grid, c.cellX, c.cellY)
        s1 == IF prev # Null /\ prev # playerId
              THEN SetPaintedCount(s, prev,
                       IF PaintedCount(s, prev) - 1 > 0 THEN PaintedCount(s, prev) - 1 ELSE 0)
              ELSE s
    IN  IF InGrid(c.cellX, c.cellY) /\ CellContent(s.grid, c.cellX, c.cellY) = "empty"
        THEN IF prev # playerId
             THEN SetPaintedCount(
                      [s1 EXCEPT !.grid = SetCellPaintedBy(s1.grid, c.cellX, c.cellY, playerId)],
                      playerId, PaintedCount(s1, playerId) + 1)
             ELSE s1
        ELSE s

RECURSIVE PaintArms(_, _, _, _)
PaintArms(s, playerId, arms, k) ==
    IF k > Len(arms) THEN s
    ELSE PaintArms(PaintCell(s, playerId, arms[k].x, arms[k].y), playerId, arms, k + 1)

paintExplosionCells(s, explosion) ==
    IF ~HasPlayer(s, explosion.playerId) THEN s
    ELSE PaintArms(PaintCell(s, explosion.playerId, explosion.x, explosion.y),
                   explosion.playerId, explosion.arms, 1)


(***************************************************************************)
(* Spawn search of processGameTick (a new player's position).  Math.cos,   *)
(* Math.sin and Math.sqrt are computed in fixed point: the angle keeps the *)
(* top 16 bits of the draw, sines come from a quarter-wave table in        *)
(* ten-thousandths with linear interpolation, the root from the top 30     *)
(* bits of the draw.                                                       *)
(***************************************************************************)
SinTable ==
    << 0, 245, 491, 736, 980, 1224, 1467, 1710, 1951, 2191, 2430,
       2667, 2903, 3137, 3369, 3599, 3827, 4052, 4276, 4496, 4714, 4929,
       5141, 5350, 5556, 5758, 5957, 6152, 6344, 6532, 6716, 6895, 7071,
       7242, 7410, 7572, 7730, 7883, 8032, 8176, 8315, 8449, 8577, 8701,
       8819, 8932, 9040, 9142, 9239, 9330, 9415, 9495, 9569, 9638, 9700,
       9757, 9808, 9853, 9892, 9925, 9952, 9973, 9988, 9997, 10000 >>

\* sin of p / 16384 of a quarter turn, 0 <= p <= 16384
SinQ(p) ==
    IF p >= 16384 THEN SinTable[65]
    ELSE SinTable[(p \div 256) + 1]
         + ((SinTable[(p \div 256) + 2] - SinTable[(p \div 256) + 1]) * (p % 256)) \div 256

\* Math.sin and Math.cos of h / 65536 of a full turn
Sin(h) ==
    LET q == h \div 16384  p == h % 16384
    IN  CASE q = 0 -> SinQ(p) [] q = 1 -> SinQ(16384 - p)
          [] q = 2 -> -SinQ(p) [] OTHER -> -SinQ(16384 - p)
Cos(h) ==
    LET q == h \div 16384  p == h % 16384
    IN  CASE q = 0 -> SinQ(16384 - p) [] q = 1 -> -SinQ(p)
          [] q = 2 -> -SinQ(16384 - p) [] OTHER -> SinQ(p)

RECURSIVE IsqrtBits(_, _, _)
IsqrtBits(v, r, bit) ==
    IF bit = 0 THEN r
    ELSE IsqrtBits(v, IF (r + bit) * (r + bit) <= v THEN r + bit ELSE r, bit \div 2)

\* Math.floor(Math.sqrt(v)) for 0 <= v < 2^30
Isqrt(v) == IsqrtBits(v, 0, 16384)

\* Math.sqrt(random()) * centerRadius * 0.7 in ten-thousandths,
\* centerRadius = gridSize / 3.5
SpawnDistance(r) == (Isqrt(r[1] * 16384 + (r[2] \div 4)) * GRID_SIZE * 125) \div 2048

\* sqrt((x - ox)^2 + (y - oy)^2) < limit, limit in thousandths
DistanceBelow(x, y, ox, oy, limit) ==
    LET dx == Abs(x - ox) \div 1000
        dy == Abs(y - oy) \div 1000
    IN  dx < limit /\ dy < limit /\ dx * dx + dy * dy < limit * limit

\* MIN_CENTER_DISTANCE = 3.5 and MIN_PLAYER_DISTANCE = 5, in thousandths
MIN_CENTER_DISTANCE == 3500
MIN_PLAYER_DISTANCE == 5000

tooCloseToOtherPlayer(s, x, y, limit) ==
    \E i \in 1 .. Len(s.players) :
        DistanceBelow(x, y, s.players[i].x, s.players[i].y, limit)

\* a candidate position: safe when the player can stand there and no
\* player is nearer than limit
Candidate(s, x, y, rng, limit) ==
    [ found |-> canMoveTo(s.grid, x, y) /\ ~tooCloseToOtherPlayer(s, x, y, limit),
      x |-> x, y |-> y, rng |-> rng ]

\* n successive states of the generator after rng
RECURSIVE Draws(_, _)
Draws(rng, n) == IF n = 0 THEN <<>> ELSE <<RandomStep(rng)>> \o Draws(RandomStep(rng), n - 1)

\* one attempt of the centre search on its two draws: angle, distance
CenterCandidate(s, r) ==
    Candidate(s, (Cos(r[1][1]) * SpawnDistance(r[2])) \div 100,
                 (Sin(r[1][1]) * SpawnDistance(r[2])) \div 100,
              r[2], MIN_CENTER_DISTANCE)

\* randomInt(min, max) = Math.floor(random() * (max - min)) + min, on the draw r
randomInt(r, min, max) == ScaleFloor(r, max - min) + min

\* the four quadrants; randomInt(0, spawnAreas.length - 1) picks the area
spawnAreas ==
    << [minX |-> 4 - GRID_SIZE \div 2, maxX |-> -(GRID_SIZE \div 4),
        minY |-> 4 - GRID_SIZE \div 2, maxY |-> -(GRID_SIZE \div 4)],
       [minX |-> GRID_SIZE \div 4, maxX |-> GRID_SIZE \div 2 - 4,
        minY |-> 4 - GRID_SIZE \div 2, maxY |-> -(GRID_SIZE \div 4)],
       [minX |-> 4 - GRID_SIZE \div 2, maxX |-> -(GRID_SIZE \div 4),
        minY |-> GRID_SIZE \div 4, maxY |-> GRID_SIZE \div 2 - 4],
       [minX |-> GRID_SIZE \div 4, maxX |-> GRID_SIZE \div 2 - 4,
        minY |-> GRID_SIZE \div 4, maxY |-> GRID_SIZE \div 2 - 4] >>

\* one attempt of the quadrant search on its three draws: area, x, y
AreaCandidate(s, r) ==
    Candidate(s,
        randomInt(r[2], spawnAreas[randomInt(r[1], 0, Len(spawnAreas) - 1) + 1].minX,
                        spawnAreas[randomInt(r[1], 0, Len(spawnAreas) - 1) + 1].maxX) * UNIT,
        randomInt(r[3], spawnAreas[randomInt(r[1], 0, Len(spawnAreas) - 1) + 1].minY,
                        spawnAreas[randomInt(r[1], 0, Len(spawnAreas) - 1) + 1].maxY) * UNIT,
        r[3], MIN_PLAYER_DISTANCE)

\* one attempt of the last-resort search on its two draws; no distance check
FallbackCandidate(s, r) ==
    Candidate(s, (randomInt(r[1], 3, GRID_SIZE - 3) - GRID_SIZE \div 2) * UNIT,
                 (randomInt(r[2], 3, GRID_SIZE - 3) - GRID_SIZE \div 2) * UNIT,
              r[2], 0)

SpawnAttempt(tier, s, rng) ==
    CASE tier = 1 -> CenterCandidate(s, Draws(rng, 2))
      [] tier = 2 -> AreaCandidate(s, Draws(rng, 3))
      [] OTHER -> FallbackCandidate(s, Draws(rng, 2))

NotFound(rng) == [found |-> FALSE, x |-> 0, y |-> 0, rng |-> rng]

\* attempts first .. last of a search; stops at the first safe spot
RECURSIVE SpawnAttempts(_, _, _, _, _)
RECURSIVE SpawnAttemptsAfter(_, _, _, _, _)
SpawnAttempts(tier, s, rng, first, last) ==
    IF first > last THEN NotFound(rng)
    ELSE SpawnAttemptsAfter(tier, s, SpawnAttempt(tier, s, rng), first, last)

\* the attempts following attempt `first`, whose outcome is try
SpawnAttemptsAfter(tier, s, try, first, last) ==
    IF try.found THEN try ELSE SpawnAttempts(tier, s, try.rng, first + 1, last)

\* the while loop `attempts < limit`, ten attempts at a time
RECURSIVE SpawnSearch(_, _, _, _, _)
RECURSIVE SpawnSearchAfter(_, _, _, _, _)
SpawnSearch(tier, s, rng, attempts, limit) ==
    IF attempts >= limit THEN NotFound(rng)
    ELSE SpawnSearchAfter(tier, s,
             SpawnAttempts(tier, s, rng, attempts + 1,
                           IF attempts + 10 < limit THEN attempts + 10 ELSE limit),
             attempts, limit)

SpawnSearchAfter(tier, s, part, attempts, limit) ==
    IF part.found THEN part ELSE SpawnSearch(tier, s, part.rng, attempts + 10, limit)

\* the search of the next tier when the previous one found no safe spot
NextTier(tier, s, previous, limit) ==
    IF previous.found THEN previous ELSE SpawnSearch(tier, s, previous.rng, 0, limit)

\* spawnX, spawnY of a new player and the generator after the search:
\* centre (100 attempts), quadrants (100), last resort (50), else (0, 0)
FindSpawn(s, rng) ==
    NextTier(3, s, NextTier(2, s, SpawnSearch(1, s, rng, 0, 100), 100), 50)

\* the PlayerState of a new player
NewPlayer(playerId, spawnX, spawnY) ==
    [ playerId |-> playerId,
      x |-> spawnX,
      y |-> spawnY,
      lastDirection |-> Null,
      bombsPlaced |-> 0,
      maxBombs |-> 1,
      explosionSize |-> 3,
      fuseMultiplier |-> 1000,
      powerUps |-> <<>>,
      speedMultiplier |-> 1000,
      speedBoostEndTick |-> 0,
      hasShield |-> FALSE,
      shieldEndTick |-> 0,
      canJump |-> FALSE,
      diagonalDirection |-> Null ]

\* the grid every engine builds on its first tick: ensureRandomInitialized
\* has just seeded the generator with DEFAULT_GAME_SEED
SeededGrid == createInitialGrid(GRID_SIZE, initializeRandom(DEFAULT_GAME_SEED))


(***************************************************************************)
(* processExplosions and its helpers.  The source mutates the state        *)
(* object; an operator returns the state after the mutation.               *)
(***************************************************************************)
\* a variant of the fuse that leaves the multiplier out
adjustedBombTimerOfBaseFuse(bomb) == BOMB_TIMER

\* Math.floor(BOMB_TIMER * bomb.fuseMultiplier)
adjustedBombTimer(bomb) == (BOMB_TIMER * bomb.fuseMultiplier) \div 1000

\* the position (x, y) lies in the centre cell or in an arm cell of the explosion
ExplosionCovers(explosion, x, y) ==
    \/ getCellCoords(x, y) = getCellCoords(explosion.x, explosion.y)
    \/ \E k \in 1 .. Len(explosion.arms) :
          getCellCoords(x, y) = getCellCoords(explosion.arms[k].x, explosion.arms[k].y)

\* checkBombsInExplosion: chain reaction, the fuse of a covered bomb is
\* made to have run out
checkBombsInExplosion(s, explosion) ==
    [s EXCEPT !.bombs =
        [i \in DOMAIN s.bombs |->
            IF /\ ~s.bombs[i].exploded
               /\ ~(s.bombs[i].x = explosion.x /\ s.bombs[i].y = explosion.y)
               /\ ExplosionCovers(explosion, s.bombs[i].x, s.bombs[i].y)
            THEN [s.bombs[i] EXCEPT !.placedAt = s.tick - adjustedBombTimer(s.bombs[i])]
            ELSE s.bombs[i]]]

\* the loop of checkExplosionHits over players.entries(), from player i on
RECURSIVE HitPlayers(_, _, _)
HitPlayers(s, explosion, i) ==
    IF i > Len(s.players) THEN s
    ELSE LET player == s.players[i]
         IN  IF /\ PaintedCount(s, player.playerId) # 0
                /\ ExplosionCovers(explosion, player.x, player.y)
             THEN HitPlayers(resetPlayerPaintedAreas(s, player.playerId), explosion, i + 1)
             ELSE HitPlayers(s, explosion, i + 1)

checkExplosionHits(s, explosion) ==
    HitPlayers(checkBombsInExplosion(s, explosion), explosion, 1)

\* up, right, down, left
Directions == << <<0, -1>>, <<1, 0>>, <<0, 1>>, <<-1, 0>> >>

\* a variant of the arm that a breakable wall does not end
RECURSIVE ExplosionArmPastBreakable(_, _, _, _, _)
ExplosionArmPastBreakable(ctx, bomb, dir, dist, explosionSize) ==
    IF dist > explosionSize THEN ctx
    ELSE LET expX == bomb.x + dir[1] * dist * UNIT
             expY == bomb.y + dir[2] * dist * UNIT
             c == getCellCoords(expX, expY)
         IN  IF ~InGrid(c.cellX, c.cellY) THEN ctx
             ELSE IF CellContent(ctx.s.grid, c.cellX, c.cellY) = "wall" THEN ctx
             ELSE ExplosionArmPastBreakable(
                      [ s |-> [ctx.s EXCEPT !.grid = SetCellContent(@, c.cellX, c.cellY, "empty")],
                        arms |-> Append(ctx.arms, [x |-> expX, y |-> expY, hit |-> FALSE]) ],
                      bomb, dir, dist + 1, explosionSize)

\* one arm of an explosion from distance dist on: ctx.s is the state (a
\* breakable wall reached is emptied and may leave a power-up), ctx.arms
\* the arm positions so far
RECURSIVE ExplosionArm(_, _, _, _, _)
ExplosionArm(ctx, bomb, dir, dist, explosionSize) ==
    IF dist > explosionSize THEN ctx
    ELSE LET expX == bomb.x + dir[1] * dist * UNIT
             expY == bomb.y + dir[2] * dist * UNIT
             c == getCellCoords(expX, expY)
         IN  IF ~InGrid(c.cellX, c.cellY) THEN ctx
             ELSE IF CellContent(ctx.s.grid, c.cellX, c.cellY) = "wall" THEN ctx
             ELSE IF CellContent(ctx.s.grid, c.cellX, c.cellY) = "breakableWall"
             THEN LET opened == [ctx.s EXCEPT !.grid = SetCellContent(@, c.cellX, c.cellY, "empty")]
                  IN  [ s |-> IF shouldSpawnPowerUp(opened, c.cellX, c.cellY)
                              THEN spawnPowerUp(opened, c.cellX, c.cellY)
                              ELSE opened,
                        arms |-> Append(ctx.arms, [x |-> expX, y |-> expY, hit |-> TRUE]) ]
             ELSE ExplosionArm(
                      [ctx EXCEPT !.arms = Append(@, [x |-> expX, y |-> expY, hit |-> FALSE])],
                      bomb, dir, dist + 1, explosionSize)

RECURSIVE ExplosionArms(_, _, _, _)
ExplosionArms(ctx, bomb, d, explosionSize) ==
    IF d > Len(Directions) THEN ctx
    ELSE ExplosionArms(ExplosionArm(ctx, bomb, Directions[d], 1, explosionSize),
                       bomb, d + 1, explosionSize)

\* the explosion created for a bomb whose arms are armed.arms
ExplosionOf(bomb, armed, tick) ==
    [ playerId |-> bomb.playerId, x |-> bomb.x, y |-> bomb.y,
      arms |-> armed.arms, startedAt |-> tick ]

\* player.bombsPlaced-- of the owner of a bomb
ReleaseBomb(s, playerId) ==
    [s EXCEPT !.players[PlayerIndex(s, playerId)].bombsPlaced = @ - 1]

\* the explosion is pushed and checkExplosionHits runs on the state the
\* arms left (armed.s)
Explode(ctx, bomb, armed) ==
    [ctx EXCEPT
        !.s = ReleaseBomb(checkExplosionHits(armed.s, ExplosionOf(bomb, armed, ctx.s.tick)),
                          bomb.playerId),
        !.newExplosions = Append(@, ExplosionOf(bomb, armed, ctx.s.tick))]

\* a bomb whose fuse ran out, already marked exploded: it explodes when
\* its owner is still a player
ExplodeBomb(ctx, bomb) ==
    IF ~HasPlayer(ctx.s, bomb.playerId) THEN ctx
    ELSE Explode(ctx, bomb,
                 ExplosionArms([s |-> ctx.s, arms |-> <<>>], bomb, 1,
                               GetPlayer(ctx.s, bomb.playerId).explosionSize))

\* the body of `for (const bomb of bombs)` for the bomb at index k.
\* ctx.s.bombs stays the list being iterated (its bombs are mutated in
\* place), ctx.remaining are the indices pushed to remainingBombs
DetonateBomb(ctx, k) ==
    IF /\ ctx.s.tick - ctx.s.bombs[k].placedAt >= adjustedBombTimer(ctx.s.bombs[k])
       /\ ~ctx.s.bombs[k].exploded
    THEN ExplodeBomb([ctx EXCEPT !.s.bombs[k].exploded = TRUE], ctx.s.bombs[k])
    ELSE [ctx EXCEPT !.remaining = Append(@, k)]

RECURSIVE DetonateBombs(_, _)
DetonateBombs(ctx, k) ==
    IF k > Len(ctx.s.bombs) THEN ctx
    ELSE DetonateBombs(DetonateBomb(ctx, k), k + 1)


\* a variant without the immunity period
checkPowerUpHitAtOnce(s, explosion) ==
    [s EXCEPT !.powerUps =
        SelectSeq(s.powerUps,
            LAMBDA powerUp : ~ExplosionCovers(explosion, powerUp.x, powerUp.y))]

\* checkPowerUpHit: a power-up older than the immunity period is removed
\* when the explosion covers it
checkPowerUpHit(s, explosion) ==
    [s EXCEPT !.powerUps =
        SelectSeq(s.powerUps,
            LAMBDA powerUp :
                \/ s.tick - powerUp.spawnedAt < POWERUP_IMMUNITY_DURATION
                \/ ~ExplosionCovers(explosion, powerUp.x, powerUp.y))]

\* the loop over the explosions list (the new explosions included): an
\* active explosion paints and clears power-ups; ctx.remaining are the
\* explosions kept
RECURSIVE ActiveExplosions(_, _, _)
ActiveExplosions(ctx, explosions, k) ==
    IF k > Len(explosions) THEN ctx
    ELSE IF ctx.s.tick - explosions[k].startedAt < EXPLOSION_DURATION
    THEN ActiveExplosions(
             [ s |-> checkPowerUpHit(paintExplosionCells(ctx.s, explosions[k]), explosions[k]),
               remaining |-> Append(ctx.remaining, explosions[k]) ],
             explosions, k + 1)
    ELSE ActiveExplosions(ctx, explosions, k + 1)

\* state.bombs = remainingBombs
KeepBombs(detonated) ==
    [detonated EXCEPT
        !.s.bombs = [i \in 1 .. Len(detonated.remaining) |->
                        detonated.s.bombs[detonated.remaining[i]]]]

\* the explosions loop over the list the new explosions were pushed to
PaintActive(detonated, explosions) ==
    ActiveExplosions([s |-> detonated.s, remaining |-> <<>>],
                     explosions \o detonated.newExplosions, 1)

\* state.explosions = remainingExplosions
KeepExplosions(active) == [active.s EXCEPT !.explosions = active.remaining]

processExplosions(s) ==
    KeepExplosions(
        PaintActive(
            KeepBombs(DetonateBombs([s |-> s, newExplosions |-> <<>>, remaining |-> <<>>], 1)),
            s.explosions))

(***************************************************************************)
(* Power-up collection                                                     *)
(***************************************************************************)
Min(a, b) == IF a < b THEN a ELSE b
Max(a, b) == IF a > b THEN a ELSE b

\* a variant without the limits
applyPowerUpUnclamped(s, player, powerUpType) ==
    LET p == [player EXCEPT !.powerUps = Append(@, powerUpType)]
    IN  CASE powerUpType = "extraBomb" -> [p EXCEPT !.maxBombs = @ + 1]
          [] powerUpType = "longerSplat" -> [p EXCEPT !.explosionSize = @ + 1]
          [] powerUpType = "shorterFuse" -> [p EXCEPT !.fuseMultiplier = (@ * 4) \div 5]
          [] powerUpType = "speedBoost" ->
                [p EXCEPT !.speedMultiplier = @ + 300, !.speedBoostEndTick = s.tick + 300]
          [] powerUpType = "splatShield" ->
                [p EXCEPT !.hasShield = TRUE, !.shieldEndTick = s.tick + 600]
          [] powerUpType = "splashJump" -> [p EXCEPT !.canJump = TRUE]
          [] OTHER -> p

\* applyPowerUp on the player record; fuseMultiplier * 0.8 and
\* speedMultiplier + 0.3 in thousandths
applyPowerUp(s, player, powerUpType) ==
    LET p == [player EXCEPT !.powerUps = Append(@, powerUpType)]
    IN  CASE powerUpType = "extraBomb" ->
                [p EXCEPT !.maxBombs = Min(@ + 1, EXTRA_BOMB_MAX)]
          [] powerUpType = "longerSplat" ->
                [p EXCEPT !.explosionSize = Min(@ + 1, LONGER_SPLAT_MAX)]
          [] powerUpType = "shorterFuse" ->
                [p EXCEPT !.fuseMultiplier = Max((@ * 4) \div 5, SHORTER_FUSE_MIN)]
          [] powerUpType = "speedBoost" ->
                [p EXCEPT !.speedMultiplier = Min(@ + 300, SPEED_BOOST_MAX),
                          !.speedBoostEndTick = s.tick + 300]
          [] powerUpType = "splatShield" ->
                [p EXCEPT !.hasShield = TRUE, !.shieldEndTick = s.tick + 600]
          [] powerUpType = "splashJump" ->
                [p EXCEPT !.canJump = TRUE]
          [] OTHER -> p

\* the players standing on the cell of a power-up, in players.entries() order
Collectors(s, powerUp) ==
    {i \in 1 .. Len(s.players) :
        getCellCoords(s.players[i].x, s.players[i].y) = getCellCoords(powerUp.x, powerUp.y)}

FirstOf(S) == CHOOSE i \in S : \A j \in S : i <= j

\* the loop of checkPowerUpCollection from power-up k on; ctx.remaining
\* are the power-ups nobody collected
RECURSIVE CollectPowerUps(_, _, _)
CollectPowerUps(ctx, powerUps, k) ==
    IF k > Len(powerUps) THEN ctx
    ELSE IF Collectors(ctx.s, powerUps[k]) = {}
    THEN CollectPowerUps([ctx EXCEPT !.remaining = Append(@, powerUps[k])], powerUps, k + 1)
    ELSE CollectPowerUps(
             [ctx EXCEPT !.s.players[FirstOf(Collectors(ctx.s, powerUps[k]))] =
                             applyPowerUp(ctx.s, @, powerUps[k].type)],
             powerUps, k + 1)

\* state.powerUps = remainingPowerUps
KeepPowerUps(collected) == [collected.s EXCEPT !.powerUps = collected.remaining]

checkPowerUpCollection(s) ==
    KeepPowerUps(CollectPowerUps([s |-> s, remaining |-> <<>>], s.powerUps, 1))


(***************************************************************************)
(* processGameTick: the body of `for (const input of tick.inputs)`.  ctx   *)
(* is the state with the module-level generator: ctx.s and ctx.rng.        *)
(***************************************************************************)
\* players.set and paintedCounts.set(playerId, 0) of a new player at spawn
AddPlayer(ctx, input, spawn) ==
    [ s |-> SetPaintedCount(
                [ctx.s EXCEPT !.players =
                    Append(@, NewPlayer(input.playerId, spawn.x, spawn.y))],
                input.playerId, 0),
      rng |-> spawn.rng ]

\* get or create the player of an input
SpawnPlayer(ctx, input) ==
    IF HasPlayer(ctx.s, input.playerId) THEN ctx
    ELSE AddPlayer(ctx, input, FindSpawn(ctx.s, ctx.rng))

\* 0.2 * player.speedMultiplier and its diagonal share (* 0.7071)
moveAmount(player) == (200000 * player.speedMultiplier) \div 1000
diagonalAmount(player) == (moveAmount(player) * 7071) \div 10000

VerticalSign(input) == IF input.up THEN -1 ELSE IF input.down THEN 1 ELSE 0
HorizontalSign(input) == IF input.left THEN -1 ELSE IF input.right THEN 1 ELSE 0

lastDirectionOf(player, input) ==
    IF input.left THEN "left" ELSE IF input.right THEN "right"
    ELSE IF input.up THEN "up" ELSE IF input.down THEN "down"
    ELSE player.lastDirection

diagonalDirectionOf(input) ==
    IF input.up /\ input.left THEN "up-left"
    ELSE IF input.up /\ input.right THEN "up-right"
    ELSE IF input.down /\ input.left THEN "down-left"
    ELSE IF input.down /\ input.right THEN "down-right"
    ELSE Null

\* a variant that moves without the collision check
MovePlayerUnchecked(grid, player, input) ==
    LET movingDiagonally == (input.up \/ input.down) /\ (input.left \/ input.right)
        step == IF movingDiagonally THEN diagonalAmount(player) ELSE moveAmount(player)
    IN  [player EXCEPT !.lastDirection = lastDirectionOf(player, input),
                       !.diagonalDirection = diagonalDirectionOf(input),
                       !.x = @ + HorizontalSign(input) * step,
                       !.y = @ + VerticalSign(input) * step]

\* the player after the movement of one input
MovePlayer(grid, player, input) ==
    LET movingDiagonally == (input.up \/ input.down) /\ (input.left \/ input.right)
        step == IF movingDiagonally THEN diagonalAmount(player) ELSE moveAmount(player)
        newX == player.x + HorizontalSign(input) * step
        newY == player.y + VerticalSign(input) * step
        faced == [player EXCEPT !.lastDirection = lastDirectionOf(player, input),
                                !.diagonalDirection = diagonalDirectionOf(input)]
        \* the retries of a blocked diagonal move: horizontally, then vertically
        onlyX == player.x + HorizontalSign(input) * moveAmount(player)
        afterX == IF canMoveTo(grid, onlyX, player.y) THEN onlyX ELSE player.x
        onlyY == player.y + VerticalSign(input) * moveAmount(player)
        afterY == IF canMoveTo(grid, afterX, onlyY) THEN onlyY ELSE player.y
    IN  IF canMoveTo(grid, newX, newY)
        THEN [faced EXCEPT !.x = newX, !.y = newY]
        ELSE IF movingDiagonally
        THEN [faced EXCEPT !.x = afterX, !.y = afterY]
        ELSE faced

\* a variant that does not look for a bomb in the player's cell
PlaceBombOnBomb(s, i) ==
    LET player == s.players[i]
        c == getCellCoords(player.x, player.y)
    IN  IF /\ player.bombsPlaced < player.maxBombs
           /\ InGrid(c.cellX, c.cellY)
           /\ CellContent(s.grid, c.cellX, c.cellY) = "empty"
        THEN [s EXCEPT
                !.bombs = Append(@, [ playerId |-> player.playerId,
                                      x |-> CellCentre(c.cellX),
                                      y |-> CellCentre(c.cellY),
                                      placedAt |-> s.tick,
                                      exploded |-> FALSE,
                                      fuseMultiplier |-> player.fuseMultiplier ]),
                !.players[i].bombsPlaced = @ + 1]
        ELSE s

\* bomb placement of the player at index i
PlaceBomb(s, i) ==
    LET player == s.players[i]
        c == getCellCoords(player.x, player.y)
        bombAtPosition ==
            \E k \in 1 .. Len(s.bombs) : getCellCoords(s.bombs[k].x, s.bombs[k].y) = c
    IN  IF /\ player.bombsPlaced < player.maxBombs
           /\ ~bombAtPosition
           /\ InGrid(c.cellX, c.cellY)
           /\ CellContent(s.grid, c.cellX, c.cellY) = "empty"
        THEN [s EXCEPT
                !.bombs = Append(@, [ playerId |-> player.playerId,
                                      x |-> CellCentre(c.cellX),
                                      y |-> CellCentre(c.cellY),
                                      placedAt |-> s.tick,
                                      exploded |-> FALSE,
                                      fuseMultiplier |-> player.fuseMultiplier ]),
                !.players[i].bombsPlaced = @ + 1]
        ELSE s

\* the movement of an input
MoveInput(ctx, input) ==
    [ctx EXCEPT !.s.players[PlayerIndex(ctx.s, input.playerId)] =
                    MovePlayer(ctx.s.grid, @, input)]

\* the bomb placement of an input
PlaceInput(ctx, input) ==
    IF input.placeBlob
    THEN [ctx EXCEPT !.s = PlaceBomb(@, PlayerIndex(@, input.playerId))]
    ELSE ctx

ProcessInput(ctx, input) == PlaceInput(MoveInput(SpawnPlayer(ctx, input), input), input)

\* inputs lo .. hi in order, by halves
RECURSIVE ProcessInputs(_, _, _, _)
ProcessInputs(ctx, inputs, lo, hi) ==
    IF lo > hi THEN ctx
    ELSE IF lo = hi THEN ProcessInput(ctx, inputs[lo])
    ELSE LET mid == (lo + hi) \div 2
             left == ProcessInputs(ctx, inputs, lo, mid)
         IN  IF left.s.tick >= 0 THEN ProcessInputs(left, inputs, mid + 1, hi) ELSE left


(***************************************************************************)
(* processGameTick                                                         *)
(***************************************************************************)
\* ensureRandomInitialized: the generator after the call
ensureRandomInitialized(s, rng) ==
    IF s.randomInitialized THEN rng ELSE initializeRandom(DEFAULT_GAME_SEED)

\* createInitialGrid(GRID_SIZE) on the module-level generator
GridFrom(rng) ==
    IF rng = initializeRandom(DEFAULT_GAME_SEED) THEN SeededGrid
    ELSE createInitialGrid(GRID_SIZE, rng)

\* a variant of the winner loop in which a later player that equals the
\* greatest count leaves the winner as it is
RECURSIVE WinnerLoopFirstOfTie(_, _, _, _)
WinnerLoopFirstOfTie(s, i, maxPaintedCount, winner) ==
    IF i > Len(s.players) THEN winner
    ELSE IF PaintedCount(s, s.players[i].playerId) > maxPaintedCount
    THEN WinnerLoopFirstOfTie(s, i + 1, PaintedCount(s, s.players[i].playerId),
                              s.players[i].playerId)
    ELSE WinnerLoopFirstOfTie(s, i + 1, maxPaintedCount, winner)

\* the winner loop over paintedCounts.entries(), from entry i on, with the
\* running maxPaintedCount and winner
RECURSIVE WinnerLoop(_, _, _, _)
WinnerLoop(s, i, maxPaintedCount, winner) ==
    IF i > Len(s.players) THEN winner
    ELSE LET count == PaintedCount(s, s.players[i].playerId)
         IN  IF count > maxPaintedCount
             THEN WinnerLoop(s, i + 1, count, s.players[i].playerId)
             ELSE IF count = maxPaintedCount /\ count > 0
             THEN WinnerLoop(s, i + 1, maxPaintedCount, Null)
             ELSE WinnerLoop(s, i + 1, maxPaintedCount, winner)

\* a variant that computes the winner at every tick from maxTicks on
FlagGameOverAgain(s) ==
    IF s.maxTicks > 0 /\ s.tick >= s.maxTicks
    THEN [s EXCEPT !.gameOver = TRUE, !.winner = WinnerLoop(s, 1, 0, Null)]
    ELSE s

\* the game-over check at the head of a tick
FlagGameOver(s) ==
    IF s.maxTicks > 0 /\ s.tick >= s.maxTicks /\ ~s.gameOver
    THEN [s EXCEPT !.gameOver = TRUE, !.winner = WinnerLoop(s, 1, 0, Null)]
    ELSE s

\* a variant of the early-return test that lets a call with the state's own
\* tick number through
staleTickStrictlyOlder(currentState, tick) == tick.tick < currentState.tick
\* the test of the early return at the head of processGameTick
staleTick(currentState, tick) == tick.tick <= currentState.tick

\* newState, the copy of currentState at the tick's number, after
\* ensureRandomInitialized
BeginTick(currentState, tick, rng) ==
    [ s |-> [currentState EXCEPT !.tick = tick.tick, !.randomInitialized = TRUE],
      rng |-> ensureRandomInitialized(currentState, rng) ]

\* newState.grid = createInitialGrid(GRID_SIZE)
WithGrid(ctx, generated) ==
    [ s |-> [ctx.s EXCEPT !.grid = [content |-> generated.grid, paintedBy |-> <<>>]],
      rng |-> generated.rng ]

\* the grid is created when it has not been created yet
EnsureGrid(ctx) ==
    IF Len(ctx.s.grid.content) = 0 THEN WithGrid(ctx, GridFrom(ctx.rng)) ELSE ctx

\* the game-over check, processExplosions, checkPowerUpCollection
RunTick(ctx) ==
    [ctx EXCEPT !.s = checkPowerUpCollection(processExplosions(FlagGameOver(@)))]

\* a variant that processes the inputs of every tick
RunInputsAlways(ctx, tick) == ProcessInputs(ctx, tick.inputs, 1, Len(tick.inputs))

\* the inputs are processed unless the game is over
RunInputs(ctx, tick) ==
    IF ctx.s.gameOver THEN ctx
    ELSE ProcessInputs(ctx, tick.inputs, 1, Len(tick.inputs))

\* processGameTick(currentState, tick) with the module-level generator
\* rng: the returned state and the generator after the call
processGameTick(currentState, tick, rng) ==
    IF staleTick(currentState, tick)
    THEN [s |-> currentState, rng |-> rng]
    ELSE RunInputs(RunTick(EnsureGrid(BeginTick(currentState, tick, rng))), tick)

(***************************************************************************)
(* The engine driven directly: processGameTick called on an instance with  *)
(* any tick record.  A record may carry several inputs of one player (the  *)
(* hub appends every input that arrives within a tick interval).           *)
(***************************************************************************)
\* the most calls that move an engine forward
MaxCalls == 3

PlayerInput(p, u, d, l, r, b) ==
    [playerId |-> p, up |-> u, down |-> d, left |-> l, right |-> r, placeBlob |-> b]
Place(p) == PlayerInput(p, FALSE, FALSE, FALSE, FALSE, TRUE)
Up(p) == PlayerInput(p, TRUE, FALSE, FALSE, FALSE, FALSE)
Right(p) == PlayerInput(p, FALSE, FALSE, FALSE, TRUE, FALSE)
DownLeft(p) == PlayerInput(p, FALSE, TRUE, TRUE, FALSE, FALSE)
Repeat(input, n) == [i \in 1 .. n |-> input]

\* a walk of three steps up and fifty to the right: it takes the second
\* player to join from its spawn cell to the cell above the first player's
Walk(p) == Repeat(Up(p), 3) \o Repeat(Right(p), 50)

InputLists ==
    { <<>>,
      <<Place("p1")>>,
      Walk("p2") \o <<Place("p2")>>,
      <<Place("p1"), Place("p2")>>,
      <<DownLeft("p1")>> }

\* the tick number of a call relative to the state's tick: stale (below or
\* equal), the next tick, a whole fuse later
TickDeltas == {-1, 0, 1, BOMB_TIMER}

\* maxTicks as the connect message sets it (0: no limit)
SessionLengths == {0, BOMB_TIMER + 2}

NoCall == [engine |-> Null, tick |-> 0, from |-> 0]

\* the call of engine e returns result; from is the tick the engine was at
Return(e, tick, result) ==
    /\ engines' = [engines EXCEPT ![e] = result.s]
    /\ globalRandom' = result.rng
    /\ applied' = [applied EXCEPT ![e] = IF tick.tick > engines[e].tick THEN @ + 1 ELSE @]
    /\ call' = [engine |-> e, tick |-> tick.tick, from |-> engines[e].tick]
    /\ UNCHANGED <<ticks, hub, conns, log>>

\* engine e calls processGameTick(engines[e], tick)
Advance(e, tick) ==
    /\ tick.tick > engines[e].tick => applied[e] < MaxCalls
    /\ Return(e, tick, processGameTick(engines[e], tick, globalRandom))

InitEngine ==
    /\ \E maxTicks \in SessionLengths :
          engines = [e \in {"A"} |-> [createInitialGameState EXCEPT !.maxTicks = maxTicks]]
    /\ globalRandom = Null
    /\ ticks = <<>>
    /\ applied = [e \in {"A"} |-> 0]
    /\ call = NoCall
    /\ NoRelay

NextEngine ==
    \E e \in DOMAIN engines, d \in TickDeltas, inputs \in InputLists :
        Advance(e, [tick |-> engines[e].tick + d, inputs |-> inputs])

SpecEngine == InitEngine /\ [][NextEngine]_vars

(***************************************************************************)
(* The end of a session: engines late in a session whose players hold      *)
(* small numbers of painted cells, in every insertion order of the         *)
(* players and paintedCounts maps, called with records without inputs.     *)
(***************************************************************************)
\* the most cells a player holds at the end of the session
MaxCount == 2
\* maxTicks of the session
WinnerMaxTicks == 4

WinnerIds == {"p1", "p2", "p3"}

\* the insertion orders of up to three players
PlayerOrders ==
    {order \in UNION {[1 .. n -> WinnerIds] : n \in 0 .. Cardinality(WinnerIds)} :
        \A i, j \in DOMAIN order : order[i] = order[j] => i = j}

\* the first n empty cells of the grid from the linear index on
RECURSIVE EmptyCellsFrom(_, _, _)
EmptyCellsFrom(content, index, n) ==
    IF n = 0 THEN <<>>
    ELSE IF content[(index \div GRID_SIZE) + 1][(index % GRID_SIZE) + 1] = "empty"
    THEN <<[cellX |-> index % GRID_SIZE, cellY |-> index \div GRID_SIZE]>>
             \o EmptyCellsFrom(content, index + 1, n - 1)
    ELSE EmptyCellsFrom(content, index + 1, n)

\* empty cells of the middle row on: the first for each player to stand
\* on, the following MaxCount for each player to have painted
OpenCells ==
    EmptyCellsFrom(SeededGrid.grid, (GRID_SIZE \div 2) * GRID_SIZE,
                   Cardinality(WinnerIds) * (MaxCount + 1))

\* the cells player number i of the order has painted when it holds count
CellsOf(i, count) ==
    {<<OpenCells[Cardinality(WinnerIds) + (i - 1) * MaxCount + k].cellX,
       OpenCells[Cardinality(WinnerIds) + (i - 1) * MaxCount + k].cellY>> : k \in 1 .. count}

\* a state late in a session: the players of order, player order[i]
\* holding counts[i] cells
LateState(order, counts, tick) ==
    [ createInitialGameState EXCEPT
        !.players = [i \in DOMAIN order |->
                        NewPlayer(order[i], CellCentre(OpenCells[i].cellX),
                                            CellCentre(OpenCells[i].cellY))],
        !.paintedCounts = [id \in {order[i] : i \in DOMAIN order} |->
                              counts[CHOOSE i \in DOMAIN order : order[i] = id]],
        !.grid = [ content |-> SeededGrid.grid,
                   paintedBy |->
                       [c \in UNION {CellsOf(i, counts[i]) : i \in DOMAIN order} |->
                           order[CHOOSE i \in DOMAIN order : c \in CellsOf(i, counts[i])]] ],
        !.tick = tick,
        !.maxTicks = WinnerMaxTicks,
        !.randomInitialized = TRUE ]

InitWinner ==
    /\ \E order \in PlayerOrders :
       \E counts \in [DOMAIN order -> 0 .. MaxCount] :
       \E tick \in {WinnerMaxTicks - 2, WinnerMaxTicks - 1} :
          engines = [e \in {"A"} |-> LateState(order, counts, tick)]
    /\ globalRandom = SeededGrid.rng
    /\ ticks = <<>>
    /\ applied = [e \in {"A"} |-> 0]
    /\ call = NoCall
    /\ NoRelay

NextWinner ==
    \E e \in DOMAIN engines, d \in {0, 1} :
        Advance(e, [tick |-> engines[e].tick + d, inputs |-> <<>>])

SpecWinner == InitWinner /\ [][NextWinner]_vars

(***************************************************************************)
(* Two engine instances of one runtime: each starts from                   *)
(* createInitialGameState and applies the same sequence of tick records,   *)
(* the calls of the two interleaved in any way.  The generator of          *)
(* utils/random.ts is a module-level variable, shared by the instances.    *)
(***************************************************************************)
\* the length of the sequence of tick records
MaxRecords == 3

\* the inputs of one record
RecordInputs == { <<>>, <<Place("p1")>>, <<Up("p2")>>, <<Place("p1"), Place("p2")>> }

InitPair ==
    /\ \E inputs \in [1 .. MaxRecords -> RecordInputs] :
          ticks = [i \in 1 .. MaxRecords |-> [tick |-> i, inputs |-> inputs[i]]]
    /\ engines = [e \in {"A", "B"} |-> createInitialGameState]
    /\ globalRandom = Null
    /\ applied = [e \in {"A", "B"} |-> 0]
    /\ call = NoCall
    /\ NoRelay

\* engine e applies the next record of the sequence
Apply(e) ==
    /\ applied[e] < Len(ticks)
    /\ Return(e, ticks[applied[e] + 1],
              processGameTick(engines[e], ticks[applied[e] + 1], globalRandom))

NextPair == \E e \in DOMAIN engines : Apply(e)

SpecPair == InitPair /\ [][NextPair]_vars

(***************************************************************************)
(* Bombs in play: engines whose players stand on open cells of the seeded  *)
(* grid (they joined and walked there), with default stats unless said     *)
(* otherwise, called with records that place bombs.                        *)
(***************************************************************************)
\* the most calls that move such an engine forward
BlastCalls == 5

BlastIds == <<"p1", "p2", "p3">>

\* players BlastIds[i] standing in the middle of cells[i], nothing painted
Standing(cells) ==
    [ createInitialGameState EXCEPT
        !.players = [i \in DOMAIN cells |->
                        NewPlayer(BlastIds[i], CellCentre(cells[i][1]), CellCentre(cells[i][2]))],
        !.paintedCounts = [id \in {BlastIds[i] : i \in DOMAIN cells} |-> 0],
        !.grid = [content |-> SeededGrid.grid, paintedBy |-> <<>>],
        !.tick = 1,
        !.randomInitialized = TRUE ]

\* engine e calls processGameTick(engines[e], tick), at most BlastCalls
\* times with a tick that is not stale
Play(e, tick) ==
    /\ tick.tick > engines[e].tick
    /\ applied[e] < BlastCalls
    /\ Return(e, tick, processGameTick(engines[e], tick, globalRandom))

\* Three cells of an open row, three apart: a bomb in the first reaches
\* the second and not the third, a bomb in the second reaches both others.
RowCells == << <<12, 15>>, <<15, 15>>, <<18, 15>> >>

\* one player places a bomb, or the other two place theirs within one
\* tick interval, in either order
RowInputs ==
    { <<>>,
      <<Place("p1")>>,
      <<Place("p2"), Place("p3")>>,
      <<Place("p3"), Place("p2")>> }

\* the next tick, or the last tick before a fuse begun a tick ago runs out
RowDeltas == {1, BOMB_TIMER - 1}

InitChain ==
    /\ engines = [e \in {"A"} |-> Standing(RowCells)]
    /\ globalRandom = SeededGrid.rng
    /\ ticks = <<>>
    /\ applied = [e \in {"A"} |-> 0]
    /\ call = NoCall
    /\ NoRelay

NextChain ==
    \E e \in DOMAIN engines, d \in RowDeltas, inputs \in RowInputs :
        Play(e, [tick |-> engines[e].tick + d, inputs |-> inputs])

SpecChain == InitChain /\ [][NextChain]_vars

\* One player with any fuse multiplier that collected shorterFuse
\* power-ups leave (1.0 times 0.8 for each, not below SHORTER_FUSE_MIN),
\* standing in an open cell with breakable walls in reach.
FuseCalls == 4

RECURSIVE FuseAfter(_)
FuseAfter(n) == IF n = 0 THEN 1000 ELSE Max((FuseAfter(n - 1) * 4) \div 5, SHORTER_FUSE_MIN)

\* the shorterFuse power-ups collected
FuseCounts == 0 .. 4

\* the next tick, or the last tick before a fuse begun a tick ago runs out
FuseDeltas == {1} \cup {((BOMB_TIMER * FuseAfter(n)) \div 1000) - 1 : n \in FuseCounts}

InitFuse ==
    /\ \E n \in FuseCounts :
          engines = [e \in {"A"} |->
                        [Standing(<<RowCells[2]>>) EXCEPT
                            !.players[1].fuseMultiplier = FuseAfter(n),
                            !.players[1].powerUps = [i \in 1 .. n |-> "shorterFuse"]]]
    /\ globalRandom = SeededGrid.rng
    /\ ticks = <<>>
    /\ applied = [e \in {"A"} |-> 0]
    /\ call = NoCall
    /\ NoRelay

NextFuse ==
    \E e \in DOMAIN engines, d \in FuseDeltas, inputs \in {<<>>, <<Place("p1")>>} :
        /\ applied[e] < FuseCalls
        /\ Play(e, [tick |-> engines[e].tick + d, inputs |-> inputs])

SpecFuse == InitFuse /\ [][NextFuse]_vars

\* One player with any explosion size that collected longerSplat
\* power-ups leave, standing in a cell with a solid wall, breakable walls
\* or open cells in reach.
ArmCells == { <<19, 12>>, <<20, 12>>, <<15, 15>> }

\* the longerSplat power-ups collected
SplatCounts == 0 .. 4

InitArms ==
    /\ \E cell \in ArmCells, n \in SplatCounts :
          engines = [e \in {"A"} |->
                        [Standing(<<cell>>) EXCEPT
                            !.players[1].explosionSize = Min(3 + n, LONGER_SPLAT_MAX),
                            !.players[1].powerUps = [i \in 1 .. n |-> "longerSplat"]]]
    /\ globalRandom = SeededGrid.rng
    /\ ticks = <<>>
    /\ applied = [e \in {"A"} |-> 0]
    /\ call = NoCall
    /\ NoRelay

NextArms ==
    \E e \in DOMAIN engines, d \in RowDeltas, inputs \in {<<>>, <<Place("p1")>>} :
        /\ applied[e] < FuseCalls
        /\ Play(e, [tick |-> engines[e].tick + d, inputs |-> inputs])

SpecArms == InitArms /\ [][NextArms]_vars

\* Two players either side of the breakable wall of cell (21, 12), which
\* hides a speedBoost power-up: each can place a bomb, and the first can
\* walk a cell to the right.
WallCells == << <<20, 12>>, <<22, 12>> >>

WallInputs == { <<>>, <<Place("p1")>>, <<Place("p2")>>, Repeat(Right("p1"), 5) }

\* the next tick, a fuse later, and the time a speed boost lasts
WallDeltas == {1, BOMB_TIMER, 300}

InitReveal ==
    /\ engines = [e \in {"A"} |-> Standing(WallCells)]
    /\ globalRandom = SeededGrid.rng
    /\ ticks = <<>>
    /\ applied = [e \in {"A"} |-> 0]
    /\ call = NoCall
    /\ NoRelay

NextReveal ==
    \E e \in DOMAIN engines, d \in WallDeltas, inputs \in WallInputs :
        /\ applied[e] < FuseCalls
        /\ Play(e, [tick |-> engines[e].tick + d, inputs |-> inputs])

SpecReveal == InitReveal /\ [][NextReveal]_vars

\* Two players five cells apart in an open row; the first holds a painted
\* cell and the extraBomb power-ups it collected.  A call's record is noted
\* in ticks.
PlaceCells == << <<12, 15>>, <<17, 15>> >>

ExtraBombCounts == 0 .. 2

PlaceInputs ==
    { <<>>,
      <<Place("p1")>>,
      <<Place("p2")>>,
      Repeat(Right("p1"), 5),
      Repeat(Right("p1"), 5) \o <<Place("p1")>>,
      <<PlayerInput("p1", FALSE, FALSE, FALSE, TRUE, TRUE)>>,
      <<Place("p1")>> \o Repeat(Right("p1"), 5) \o <<Place("p1")>> \o Repeat(Right("p1"), 5) }

PlaceDeltas == {1, BOMB_TIMER - 1}

\* the most calls of an engine with PlaceInputs
PlaceCalls == 3

\* engine e calls processGameTick(engines[e], tick) and the record is noted
PlayNoted(e, tick) ==
    /\ tick.tick > engines[e].tick
    /\ applied[e] < FuseCalls
    /\ engines' = [engines EXCEPT ![e] = processGameTick(engines[e], tick, globalRandom).s]
    /\ globalRandom' = processGameTick(engines[e], tick, globalRandom).rng
    /\ applied' = [applied EXCEPT ![e] = @ + 1]
    /\ call' = [engine |-> e, tick |-> tick.tick, from |-> engines[e].tick]
    /\ ticks' = <<tick>>
    /\ UNCHANGED <<hub, conns, log>>

InitPlace ==
    /\ \E n \in ExtraBombCounts :
          engines = [e \in {"A"} |->
                        [Standing(PlaceCells) EXCEPT
                            !.players[1].maxBombs = Min(1 + n, EXTRA_BOMB_MAX),
                            !.players[1].powerUps = Repeat("extraBomb", n),
                            !.paintedCounts["p1"] = 1,
                            !.grid.paintedBy = [c \in {<<11, 15>>} |-> "p1"]]]
    /\ globalRandom = SeededGrid.rng
    /\ ticks = <<>>
    /\ applied = [e \in {"A"} |-> 0]
    /\ call = NoCall
    /\ NoRelay

NextPlace ==
    \E e \in DOMAIN engines, d \in PlaceDeltas, inputs \in PlaceInputs :
        /\ applied[e] < PlaceCalls
        /\ PlayNoted(e, [tick |-> engines[e].tick + d, inputs |-> inputs])

SpecPlace == InitPlace /\ [][NextPlace]_vars

\* The two players of the open row in a session that ends after a few
\* ticks; a third player may ask to join.
OverTicks == {3, 4}

OverInputs ==
    { <<>>,
      <<Place("p1")>>,
      <<Place("p2")>>,
      Repeat(Right("p1"), 5),
      <<Up("p3")>> }

InitOver ==
    /\ \E maxTicks \in OverTicks :
          engines = [e \in {"A"} |->
                        [Standing(PlaceCells) EXCEPT
                            !.maxTicks = maxTicks,
                            !.paintedCounts["p1"] = 1,
                            !.grid.paintedBy = [c \in {<<11, 15>>} |-> "p1"]]]
    /\ globalRandom = SeededGrid.rng
    /\ ticks = <<>>
    /\ applied = [e \in {"A"} |-> 0]
    /\ call = NoCall
    /\ NoRelay

NextOver ==
    \E e \in DOMAIN engines, d \in PlaceDeltas, inputs \in OverInputs :
        PlayNoted(e, [tick |-> engines[e].tick + d, inputs |-> inputs])

SpecOver == InitOver /\ [][NextOver]_vars

\* The stats of one player under any sequence of power-ups applied and
\* hits taken.
MaxCollected == 5

InitStats ==
    /\ engines = [e \in {"A"} |-> Standing(<<RowCells[2]>>)]
    /\ globalRandom = SeededGrid.rng
    /\ ticks = <<>>
    /\ applied = [e \in {"A"} |-> 0]
    /\ call = NoCall
    /\ NoRelay

\* applyPowerUp(state, player, powerUpType) on the first player of engine e
Collect(e, powerUpType) ==
    /\ Len(engines[e].players[1].powerUps) < MaxCollected
    /\ engines' = [engines EXCEPT ![e].players[1] = applyPowerUp(engines[e], @, powerUpType)]
    /\ UNCHANGED <<globalRandom, ticks, applied, call, hub, conns, log>>

\* resetPlayerPaintedAreas(state, playerId) for the first player of engine e
HitReset(e) ==
    /\ engines[e].players[1].powerUps # <<>>
    /\ engines' = [engines EXCEPT ![e] = resetPlayerPaintedAreas(@, @.players[1].playerId)]
    /\ UNCHANGED <<globalRandom, ticks, applied, call, hub, conns, log>>

NextStats ==
    \/ \E e \in DOMAIN engines, k \in DOMAIN PowerUpTypes : Collect(e, PowerUpTypes[k])
    \/ \E e \in DOMAIN engines : HitReset(e)

SpecStats == InitStats /\ [][NextStats]_vars

\* The caller keeps a reference to the state it passes to processGameTick.
\* newState has a new Map of players and new arrays of bombs, explosions
\* and power-ups that hold the objects of currentState, and a copy of the
\* grid: what the call writes to a player or to a bomb of the bombs loop is
\* seen through currentState as well.  The retained state is the second
\* instance, "previous".
Retained(currentState, tick, rng, result) ==
    IF staleTick(currentState, tick) THEN currentState
    ELSE [currentState EXCEPT
            !.players = [i \in DOMAIN currentState.players |-> result.s.players[i]],
            !.bombs = DetonateBombs(
                          [ s |-> FlagGameOver(EnsureGrid(BeginTick(currentState, tick, rng)).s),
                            newExplosions |-> <<>>,
                            remaining |-> <<>> ], 1).s.bombs]

PlayRetaining(e, tick) ==
    /\ tick.tick > engines[e].tick
    /\ applied[e] < FuseCalls
    /\ engines' = [engines EXCEPT
                      ![e] = processGameTick(engines[e], tick, globalRandom).s,
                      !["previous"] = Retained(engines[e], tick, globalRandom,
                                               processGameTick(engines[e], tick, globalRandom))]
    /\ globalRandom' = processGameTick(engines[e], tick, globalRandom).rng
    /\ applied' = [applied EXCEPT ![e] = @ + 1]
    /\ call' = [engine |-> e, tick |-> tick.tick, from |-> engines[e].tick]
    /\ ticks' = <<tick>>
    /\ UNCHANGED <<hub, conns, log>>

InitRetain ==
    /\ engines = [e \in {"A", "previous"} |-> Standing(PlaceCells)]
    /\ globalRandom = SeededGrid.rng
    /\ ticks = <<>>
    /\ applied = [e \in {"A"} |-> 0]
    /\ call = NoCall
    /\ NoRelay

NextRetain ==
    \E d \in PlaceDeltas, inputs \in OverInputs :
        PlayRetaining("A", [tick |-> engines["A"].tick + d, inputs |-> inputs])

SpecRetain == InitRetain /\ [][NextRetain]_vars

(***************************************************************************)
(* The relay: websocket.Hub with its Run loop, the reset countdown         *)
(* goroutine and the read and write pumps of the connections.  A step is   *)
(* one case of the Run loop's select, one critical section or one channel  *)
(* operation of a pump.                                                    *)
(***************************************************************************)
DEFAULT_MAX_HISTORY_SIZE == 100000
DEFAULT_TICK_INTERVAL_MS == 50
\* make(chan common.ClientMessage, 1)
BroadcastCap == 1
\* the capacity of a connection's SendChan (256 in HandleWebSocket)
SendCap == 2
\* HubOptions.ResetTimeoutSec
ResetTimeoutSec == 1
\* HubOptions.MaxHistorySize of a short session
ShortSession == 2
\* the most tick records the hub emits, inputs it accepts, display names
\* it is sent
MaxEmitted == 3
MaxInputs == 2
MaxNames == 1
\* the most inbound messages that a read pump drops
MaxDropped == 2

\* the id HandleWebSocket assigns and the id the client announces
TempId(c) == "temp-" \o c
PersistentId(c) == "p" \o c

ConnectMessage(id, h) ==
    [ type |-> "connect", playerId |-> id,
      maxTicks |-> h.maxHistorySize, tickInterval |-> h.tickInterval ]
TickMessage(tick) == [type |-> "tick", tick |-> tick]
HistorySyncMessage(history) ==
    [ type |-> "historySync", history |-> history,
      fromTick |-> history[1].tick, toTick |-> history[Len(history)].tick ]
ResetMessage(countdown) ==
    [type |-> "reset", resetTimeSec |-> ResetTimeoutSec, countdownSec |-> countdown]
DisplayNameUpdateMessage(names) == [type |-> "displayName", displayNames |-> names]

\* a variant of the decoding that forwards the player id the client wrote
DecodeInputKeepingId(id, input) ==
    [playerId |-> input.playerId, direction |-> Null, placeBlob |-> input.placeBlob]

\* types.PlayerInput as json.Unmarshal fills it from the client's message,
\* with the player id readPump sets when it differs from client.ID (id):
\* the struct AddInput reads (input.Direction, input.PlaceBlob) has no field
\* for up, down, left, right, and the client sends no direction
DecodeInput(id, input) == [playerId |-> id, direction |-> Null, placeBlob |-> input.placeBlob]

\* select { case ch <- m: default: }
HasRoom(chan, cap) == Len(chan) < cap
Offer(chan, cap, m) == IF HasRoom(chan, cap) THEN Append(chan, m) ELSE chan

NewHubWithOptions(maxHistorySize) ==
    [ Clients |-> {},
      Broadcast |-> <<>>,
      CurrentTick |-> 0,
      CurrentInputs |-> <<>>,
      TickHistory |-> <<>>,
      DisplayNames |-> <<>>,
      tickInterval |-> DEFAULT_TICK_INTERVAL_MS,
      maxHistorySize |-> maxHistorySize,
      isResetting |-> FALSE,
      resetTimer |-> FALSE,        \* h.resetTimer != nil
      resetChan |-> FALSE,         \* Run's resetChan != nil
      countdown |-> -1,            \* broadcastCountdown: the value it sends next
      pc |-> "select",             \* Run: at the select, or in processGameTick
      pending |-> <<>>,            \* processGameTick: its tickMessage
      panicked |-> FALSE ]

\* a connection not yet made
NoClient == [ID |-> "", SendChan |-> <<>>, closed |-> FALSE, pump |-> "idle"]

\* no stream is noted before a connection has announced its id
NoStream == [on |-> FALSE, entries |-> <<>>]

\* the tick numbers enqueued on a sink since the connect message of a reset
NoSession == [on |-> FALSE, ticks |-> <<>>]
SessionNoted(session, m) ==
    IF session.on /\ m.type = "tick"
    THEN [session EXCEPT !.ticks = Append(@, m.tick.tick)]
    ELSE session

\* what is noted of a run: per connection the ticks of the messages enqueued
\* on its sink since its connect message and whether its client has
\* replayed a historySync since then, the inputs accepted since the last
\* record, and counts of the records, inputs, names and dropped
\* messages so far (cyclic: the records are counted per session) and of
\* the inputs accepted since the last dropped message
NoLog(connections) ==
    [ stream |-> [c \in connections |-> NoStream],
      cyclic |-> FALSE,
      session |-> [c \in connections |-> NoSession],
      synced |-> [c \in connections |-> FALSE],
      waiting |-> <<>>,
      inputs |-> 0,
      emitted |-> 0,
      names |-> 0,
      dropped |-> 0,
      afterDrop |-> 0 ]

\* the ticks a tick or historySync message covers
Covered(m) ==
    IF m.type = "tick"
    THEN [type |-> "tick", fromTick |-> m.tick.tick, toTick |-> m.tick.tick]
    ELSE [type |-> "historySync", fromTick |-> m.fromTick, toTick |-> m.toTick]

\* the stream of c after message m was enqueued on its sink
Noted(stream, m) ==
    IF stream.on /\ m.type \in {"tick", "historySync"}
    THEN [stream EXCEPT !.entries = Append(@, Covered(m))]
    ELSE stream

\* the message is enqueued on the sink of c when the sink has room
SendTo(cs, c, m) == [cs EXCEPT ![c].SendChan = Offer(@, SendCap, m)]
Sent(l, cs, c, m) ==
    IF HasRoom(cs[c].SendChan, SendCap) THEN [l EXCEPT !.stream[c] = Noted(@, m)] ELSE l

\* a variant of the loop's tail that never takes the timer's channel
AfterSelectWithoutTimer(h) == h

\* Run, after the select: resetChan is set once the timer exists
AfterSelect(h) == [h EXCEPT !.resetChan = @ \/ h.resetTimer]

\* case client := <-h.Register, with HandleWebSocket's send on Register
Register(c) ==
    /\ ~hub.panicked /\ hub.pc = "select"
    /\ conns[c].pump = "idle"
    /\ hub' = AfterSelect([hub EXCEPT !.Clients = @ \cup {c}])
    /\ conns' = [conns EXCEPT ![c] =
                    [ ID |-> TempId(c),
                      SendChan |-> <<ConnectMessage(TempId(c), hub)>>,
                      closed |-> FALSE,
                      pump |-> "read" ]]
    /\ UNCHANGED <<engines, globalRandom, ticks, applied, call, log>>

\* readPump: conn.ReadMessage fails, the loop is left
ReadError(c) ==
    /\ ~hub.panicked
    /\ conns[c].pump = "read"
    /\ conns' = [conns EXCEPT ![c].pump = "unregister"]
    /\ UNCHANGED <<engines, globalRandom, ticks, applied, call, hub, log>>

\* a variant of the Unregister case that closes the sink and leaves the
\* client in the client set
UnregisterKeepingClient(c) ==
    /\ ~hub.panicked /\ hub.pc = "select"
    /\ conns[c].pump = "unregister"
    /\ hub' = AfterSelect(hub)
    /\ conns' = [conns EXCEPT ![c].pump = "done",
                              ![c].closed = @ \/ c \in hub.Clients]
    /\ UNCHANGED <<engines, globalRandom, ticks, applied, call, log>>

\* case client := <-h.Unregister, with readPump's deferred send
Unregister(c) ==
    /\ ~hub.panicked /\ hub.pc = "select"
    /\ conns[c].pump = "unregister"
    /\ hub' = AfterSelect([hub EXCEPT !.Clients = @ \ {c}])
    /\ conns' = [conns EXCEPT ![c].pump = "done",
                              ![c].closed = @ \/ c \in hub.Clients]
    /\ UNCHANGED <<engines, globalRandom, ticks, applied, call, log>>

\* a variant of the removal in which one full sink removes every client
FailedEvery(cs, clients) ==
    IF \E c \in clients : ~HasRoom(cs[c].SendChan, SendCap) THEN clients ELSE {}

\* the clients whose sink has no room for a broadcast message
Failed(cs, clients) == {c \in clients : ~HasRoom(cs[c].SendChan, SendCap)}

\* case message := <-h.Broadcast: the fan-out, and the removal of the
\* clients it failed to send to
Broadcast ==
    /\ ~hub.panicked /\ hub.pc = "select"
    /\ Len(hub.Broadcast) > 0
    /\ hub' = AfterSelect([hub EXCEPT !.Broadcast = Tail(@),
                                      !.Clients = @ \ Failed(conns, hub.Clients)])
    /\ conns' = [c \in DOMAIN conns |->
                    IF c \notin hub.Clients THEN conns[c]
                    ELSE IF HasRoom(conns[c].SendChan, SendCap)
                    THEN [conns[c] EXCEPT !.SendChan = Append(@, Head(hub.Broadcast))]
                    ELSE [conns[c] EXCEPT !.closed = TRUE]]
    /\ log' = [log EXCEPT !.stream =
                  [c \in DOMAIN conns |->
                      IF c \in hub.Clients \ Failed(conns, hub.Clients)
                      THEN Noted(@[c], Head(hub.Broadcast)) ELSE @[c]],
                          !.session =
                  [c \in DOMAIN conns |->
                      IF c \in hub.Clients \ Failed(conns, hub.Clients)
                      THEN SessionNoted(@[c], Head(hub.Broadcast)) ELSE @[c]]]
    /\ UNCHANGED <<engines, globalRandom, ticks, applied, call>>

\* a variant of the test that does not look at isResetting
ResetDueWhilePending(h) == h.CurrentTick > 0 /\ h.CurrentTick >= h.maxHistorySize

\* processGameTick: the game is over and no reset is under way
ResetDue(h) == ~h.isResetting /\ h.CurrentTick > 0 /\ h.CurrentTick >= h.maxHistorySize

\* startResetCountdown: the timer and the broadcastCountdown goroutine
startResetCountdown(h) ==
    [h EXCEPT !.isResetting = TRUE, !.resetTimer = TRUE, !.countdown = ResetTimeoutSec]

\* the record processGameTick emits
CurrentRecord(h) == [tick |-> h.CurrentTick, inputs |-> h.CurrentInputs]

\* a variant of the append that makes room at the newer end of a full history
EmitRecordEvictingNewest(h) ==
    [h EXCEPT !.TickHistory = Append(IF Len(@) >= h.maxHistorySize
                                     THEN SubSeq(@, 1, Len(@) - 1) ELSE @,
                                     CurrentRecord(h)),
              !.CurrentInputs = <<>>,
              !.CurrentTick = @ + 1,
              !.pc = "tickSend",
              !.pending = <<TickMessage(CurrentRecord(h))>>]

\* processGameTick under InputMutex, from the record on; TickHistory[1:]
\* of an empty slice panics (slice bounds out of range)
EmitRecord(h) ==
    IF Len(h.TickHistory) >= h.maxHistorySize /\ Len(h.TickHistory) = 0
    THEN [h EXCEPT !.panicked = TRUE]
    ELSE [h EXCEPT !.TickHistory = Append(IF Len(@) >= h.maxHistorySize THEN Tail(@) ELSE @,
                                          CurrentRecord(h)),
                   !.CurrentInputs = <<>>,
                   !.CurrentTick = @ + 1,
                   !.pc = "tickSend",
                   !.pending = <<TickMessage(CurrentRecord(h))>>]

\* case <-ticker.C: processGameTick up to InputMutex.Unlock.  One
\* broadcastCountdown goroutine runs at a time.
TickLocked ==
    /\ ~hub.panicked /\ hub.pc = "select"
    /\ log.emitted < MaxEmitted
    /\ ResetDue(hub) => hub.countdown < 0
    /\ hub' = EmitRecord(IF ResetDue(hub) THEN startResetCountdown(hub) ELSE hub)
    /\ log' = [log EXCEPT !.emitted = @ + 1, !.waiting = <<>>]
    /\ UNCHANGED <<engines, globalRandom, ticks, applied, call, conns>>

\* processGameTick: the send of the tick message on Broadcast
TickSend ==
    /\ ~hub.panicked /\ hub.pc = "tickSend"
    /\ hub' = AfterSelect([hub EXCEPT !.Broadcast = Offer(@, BroadcastCap, hub.pending[1]),
                                      !.pc = "select",
                                      !.pending = <<>>])
    /\ UNCHANGED <<engines, globalRandom, ticks, applied, call, conns, log>>

\* broadcastCountdown: one iteration of its loop; the sleep of a second
\* separates two iterations
CountdownSend ==
    /\ ~hub.panicked
    /\ hub.countdown >= 0
    /\ hub' = [hub EXCEPT !.Broadcast = Offer(@, BroadcastCap, ResetMessage(hub.countdown)),
                          !.countdown = @ - 1]
    /\ UNCHANGED <<engines, globalRandom, ticks, applied, call, conns, log>>

\* case <-resetChan: resetGameSession.  The timer of ResetTimeoutSec
\* seconds fires when broadcastCountdown has slept all but its last second.
ResetSession ==
    /\ ~hub.panicked /\ hub.pc = "select"
    /\ hub.resetChan /\ hub.countdown <= 0
    /\ hub' = [hub EXCEPT !.CurrentTick = 0,
                          !.CurrentInputs = <<>>,
                          !.TickHistory = <<>>,
                          !.isResetting = FALSE,
                          !.resetTimer = FALSE,
                          !.resetChan = FALSE]
    /\ conns' = [c \in DOMAIN conns |->
                    IF c \in hub.Clients
                    THEN [conns[c] EXCEPT
                             !.SendChan = Offer(@, SendCap, ConnectMessage(conns[c].ID, hub))]
                    ELSE conns[c]]
    /\ log' = [log EXCEPT !.stream = [c \in DOMAIN conns |-> NoStream],
                          !.session =
                  [c \in DOMAIN conns |->
                      IF c \in hub.Clients /\ HasRoom(conns[c].SendChan, SendCap)
                      THEN [on |-> TRUE, ticks |-> <<>>] ELSE NoSession],
                          !.emitted = IF log.cyclic THEN 0 ELSE @]
    /\ UNCHANGED <<engines, globalRandom, ticks, applied, call>>

\* readPump, MessageTypeInput: AddInput with the player id set to client.ID
InputMessage(c, input) ==
    /\ ~hub.panicked
    /\ conns[c].pump = "read"
    /\ log.inputs < MaxInputs
    /\ hub' = [hub EXCEPT !.CurrentInputs = Append(@, DecodeInput(conns[c].ID, input))]
    /\ log' = [log EXCEPT !.waiting = Append(@, DecodeInput(conns[c].ID, input)),
                          !.inputs = @ + 1,
                          !.afterDrop = IF log.dropped > 0 THEN @ + 1 ELSE @]
    /\ UNCHANGED <<engines, globalRandom, ticks, applied, call, conns>>

\* the types readPump has a case for
MessageTypes == {"input", "displayName", "clientId"}

\* inbound messages as readPump decodes them: json says whether the base
\* message with its type decodes, fields whether the message of that type
\* does.  These are the ones no case accepts: text that is no JSON object
\* with a string type, a type no case names (or none), and a message of a
\* known type whose fields do not decode.
RejectedMessages ==
    {[json |-> FALSE, type |-> "", fields |-> FALSE]}
    \cup {[json |-> TRUE, type |-> t, fields |-> TRUE] : t \in {"", "chat"}}
    \cup {[json |-> TRUE, type |-> t, fields |-> FALSE] : t \in MessageTypes}

\* a variant in which a message that is not accepted ends the read loop
DroppedMessageEndingLoop(c, message) ==
    /\ ~hub.panicked
    /\ conns[c].pump = "read"
    /\ log.dropped < MaxDropped
    /\ ~message.json \/ message.type \notin MessageTypes \/ ~message.fields
    /\ conns' = [conns EXCEPT ![c].pump = "unregister"]
    /\ log' = [log EXCEPT !.dropped = @ + 1, !.afterDrop = 0]
    /\ UNCHANGED <<engines, globalRandom, ticks, applied, call, hub>>

\* readPump: json.Unmarshal of the base message or of the typed message
\* fails, or the switch takes its default case; the error is logged and
\* the loop continues with the next message
DroppedMessage(c, message) ==
    /\ ~hub.panicked
    /\ conns[c].pump = "read"
    /\ log.dropped < MaxDropped
    /\ ~message.json \/ message.type \notin MessageTypes \/ ~message.fields
    /\ log' = [log EXCEPT !.dropped = @ + 1, !.afterDrop = 0]
    /\ UNCHANGED <<engines, globalRandom, ticks, applied, call, hub, conns>>

\* readPump, MessageTypeDisplayName: UpdateDisplayName up to the unlock
DisplayNameMessage(c, name) ==
    /\ ~hub.panicked
    /\ conns[c].pump = "read"
    /\ log.names < MaxNames
    /\ hub' = [hub EXCEPT !.DisplayNames = (conns[c].ID :> name) @@ @]
    /\ conns' = [conns EXCEPT ![c].pump = "broadcastNames"]
    /\ log' = [log EXCEPT !.names = @ + 1]
    /\ UNCHANGED <<engines, globalRandom, ticks, applied, call>>

\* broadcastDisplayNames: the copy of the map is sent on Broadcast
broadcastDisplayNames(c) ==
    /\ ~hub.panicked
    /\ conns[c].pump = "broadcastNames"
    /\ hub' = [hub EXCEPT !.Broadcast =
                  Offer(@, BroadcastCap, DisplayNameUpdateMessage(hub.DisplayNames))]
    /\ conns' = [conns EXCEPT ![c].pump = "read"]
    /\ UNCHANGED <<engines, globalRandom, ticks, applied, call, log>>

\* UpdateClientId: DisplayNames[newId] = displayName, then
\* delete(DisplayNames, oldId)
UpdateClientId(names, oldId, newId) ==
    IF oldId \in DOMAIN names
    THEN [id \in (DOMAIN names \cup {newId}) \ {oldId} |->
             IF id = newId THEN names[oldId] ELSE names[id]]
    ELSE names

\* a pump's send on the sink of c: on a closed channel it panics
PumpSend(c, m, next) ==
    /\ hub' = [hub EXCEPT !.panicked = conns[c].closed]
    /\ conns' = IF conns[c].closed THEN conns
                ELSE SendTo([conns EXCEPT ![c].pump = next], c, m)
    /\ log' = IF conns[c].closed THEN log ELSE Sent(log, conns, c, m)

\* readPump, MessageTypeClientId: UpdateClientId, client.ID = newId and the
\* connect message that confirms the new id
ClientIdMessage(c) ==
    /\ ~hub.panicked
    /\ conns[c].pump = "read"
    /\ conns[c].ID = TempId(c)
    /\ hub' = [hub EXCEPT
                  !.DisplayNames = UpdateClientId(@, conns[c].ID, PersistentId(c)),
                  !.panicked = conns[c].closed]
    /\ conns' = IF conns[c].closed THEN conns
                ELSE SendTo([conns EXCEPT ![c].ID = PersistentId(c), ![c].pump = "history"],
                            c, ConnectMessage(PersistentId(c), hub))
    /\ log' = IF conns[c].closed \/ ~HasRoom(conns[c].SendChan, SendCap) THEN log
              ELSE [log EXCEPT !.stream[c] = [on |-> TRUE, entries |-> <<>>],
                               !.session[c] = NoSession]
    /\ UNCHANGED <<engines, globalRandom, ticks, applied, call>>

\* readPump: sendHistoryToClient
sendHistoryToClient(c) ==
    /\ ~hub.panicked
    /\ conns[c].pump = "history"
    /\ IF Len(hub.TickHistory) = 0
       THEN /\ conns' = [conns EXCEPT ![c].pump = "names"]
            /\ UNCHANGED <<hub, log>>
       ELSE PumpSend(c, HistorySyncMessage(hub.TickHistory), "names")
    /\ UNCHANGED <<engines, globalRandom, ticks, applied, call>>

\* readPump: SendDisplayNamesToClient
SendDisplayNamesToClient(c) ==
    /\ ~hub.panicked
    /\ conns[c].pump = "names"
    /\ IF DOMAIN hub.DisplayNames = {}
       THEN /\ conns' = [conns EXCEPT ![c].pump = "read"]
            /\ UNCHANGED <<hub, log>>
       ELSE PumpSend(c, DisplayNameUpdateMessage(hub.DisplayNames), "read")
    /\ UNCHANGED <<engines, globalRandom, ticks, applied, call>>

\* writePump: a message is taken from SendChan and written to the socket
WritePump(c) ==
    /\ ~hub.panicked
    /\ Len(conns[c].SendChan) > 0
    /\ conns' = [conns EXCEPT ![c].SendChan = Tail(@)]
    /\ UNCHANGED <<engines, globalRandom, ticks, applied, call, hub, log>>

\* the connections of the relay
Connections == {"1"}

\* the connection of the first player and the connection made later
FirstPlayer == "1"
LateJoiner == "2"

\* the names the players choose
Names == {"ann"}

\* the player ids a client writes in its input messages: its persistent id
\* or the id of someone else, never the temporary id of its connection
ForeignId == "p0"
WrittenIds(c) == {PersistentId(c), ForeignId}

InitHub ==
    /\ hub = NewHubWithOptions(ShortSession)
    /\ conns = [c \in Connections |-> NoClient]
    /\ log = NoLog(Connections)
    /\ engines = <<>>
    /\ globalRandom = Null
    /\ ticks = <<>>
    /\ applied = <<>>
    /\ call = NoCall

\* the steps of the read pumps
PumpStep ==
    \/ \E c \in DOMAIN conns : ReadError(c)
    \/ \E c \in DOMAIN conns : \E written \in WrittenIds(c) : InputMessage(c, Place(written))
    \/ \E c \in DOMAIN conns, name \in Names : DisplayNameMessage(c, name)
    \/ \E c \in DOMAIN conns : broadcastDisplayNames(c)
    \/ \E c \in DOMAIN conns : ClientIdMessage(c)
    \/ \E c \in DOMAIN conns : sendHistoryToClient(c)
    \/ \E c \in DOMAIN conns : SendDisplayNamesToClient(c)

\* the cases of the select of Run, and the rest of processGameTick
RunStep ==
    \/ \E c \in DOMAIN conns : Register(c)
    \/ \E c \in DOMAIN conns : Unregister(c)
    \/ Broadcast
    \/ TickLocked
    \/ TickSend
    \/ ResetSession

NextHub ==
    \/ RunStep
    \/ CountdownSend
    \/ PumpStep
    \/ \E c \in DOMAIN conns : WritePump(c)

SpecHub == InitHub /\ [][NextHub]_vars

(***************************************************************************)
(* The relay over several sessions: the hub of a short session with one    *)
(* connection, whose ticker fires MaxEmitted times in every session.       *)
(***************************************************************************)
InitCycle ==
    /\ hub = NewHubWithOptions(ShortSession)
    /\ conns = [c \in Connections |-> NoClient]
    /\ log = [NoLog(Connections) EXCEPT !.cyclic = TRUE]
    /\ engines = <<>>
    /\ globalRandom = Null
    /\ ticks = <<>>
    /\ applied = <<>>
    /\ call = NoCall

NextCycle ==
    \/ \E c \in DOMAIN conns : Register(c)
    \/ Broadcast
    \/ TickLocked
    \/ TickSend
    \/ CountdownSend
    \/ ResetSession
    \/ \E c \in DOMAIN conns : InputMessage(c, Place(PersistentId(c)))
    \/ \E c \in DOMAIN conns : ClientIdMessage(c)
    \/ \E c \in DOMAIN conns : sendHistoryToClient(c)
    \/ \E c \in DOMAIN conns : SendDisplayNamesToClient(c)
    \/ \E c \in DOMAIN conns : WritePump(c)

SpecCycle == InitCycle /\ [][NextCycle]_vars

(***************************************************************************)
(* The reset cycle: hubs of sessions of one tick and more with one         *)
(* connection that sends inputs, over several sessions.                    *)
(***************************************************************************)
InitReset ==
    /\ \E maxHistorySize \in 1 .. ShortSession : hub = NewHubWithOptions(maxHistorySize)
    /\ conns = [c \in Connections |-> NoClient]
    /\ log = [NoLog(Connections) EXCEPT !.cyclic = TRUE]
    /\ engines = <<>>
    /\ globalRandom = Null
    /\ ticks = <<>>
    /\ applied = <<>>
    /\ call = NoCall

NextReset ==
    \/ \E c \in DOMAIN conns : Register(c)
    \/ Broadcast
    \/ TickLocked
    \/ TickSend
    \/ CountdownSend
    \/ ResetSession
    \/ \E c \in DOMAIN conns : InputMessage(c, Place(PersistentId(c)))
    \/ \E c \in DOMAIN conns : WritePump(c)

SpecReset == InitReset /\ [][NextReset]_vars

\* the ticker keeps firing, a call of processGameTick and the goroutine of
\* broadcastCountdown go on, and the select of Run, which chooses among its
\* ready cases at random, takes the expired timer's case in the end
SpecResetFair ==
    /\ SpecReset
    /\ WF_vars(TickLocked)
    /\ WF_vars(TickSend)
    /\ WF_vars(CountdownSend)
    /\ SF_vars(ResetSession)

(***************************************************************************)
(* The read pump of one connection that is sent messages of every kind,    *)
(* those no case accepts among them, while the hub emits ticks.            *)
(***************************************************************************)
InitInbound ==
    /\ hub = NewHubWithOptions(DEFAULT_MAX_HISTORY_SIZE)
    /\ conns = [c \in Connections |-> NoClient]
    /\ log = NoLog(Connections)
    /\ engines = <<>>
    /\ globalRandom = Null
    /\ ticks = <<>>
    /\ applied = <<>>
    /\ call = NoCall

NextInbound ==
    \/ \E c \in DOMAIN conns : Register(c)
    \/ \E c \in DOMAIN conns : ReadError(c)
    \/ \E c \in DOMAIN conns : Unregister(c)
    \/ Broadcast
    \/ TickLocked
    \/ TickSend
    \/ \E c \in DOMAIN conns, message \in RejectedMessages : DroppedMessage(c, message)
    \/ \E c \in DOMAIN conns : InputMessage(c, Place(PersistentId(c)))
    \/ \E c \in DOMAIN conns, name \in Names : DisplayNameMessage(c, name)
    \/ \E c \in DOMAIN conns : broadcastDisplayNames(c)
    \/ \E c \in DOMAIN conns : ClientIdMessage(c)
    \/ \E c \in DOMAIN conns : sendHistoryToClient(c)
    \/ \E c \in DOMAIN conns : SendDisplayNamesToClient(c)
    \/ \E c \in DOMAIN conns : WritePump(c)

SpecInbound == InitInbound /\ [][NextInbound]_vars

(***************************************************************************)
(* The history of hubs of every small MaxHistorySize, 0 included (the      *)
(* option is an unsigned integer that NewHubWithOptions takes as it is),   *)
(* over several sessions, with one connection that sends inputs.           *)
(***************************************************************************)
HistorySizes == 0 .. ShortSession

InitHistory ==
    /\ \E maxHistorySize \in HistorySizes : hub = NewHubWithOptions(maxHistorySize)
    /\ conns = [c \in Connections |-> NoClient]
    /\ log = [NoLog(Connections) EXCEPT !.cyclic = TRUE]
    /\ engines = <<>>
    /\ globalRandom = Null
    /\ ticks = <<>>
    /\ applied = <<>>
    /\ call = NoCall

SpecHistory == InitHistory /\ [][NextReset]_vars

(***************************************************************************)
(* UpdateClientId called with any two ids on any map of display names.     *)
(***************************************************************************)
PlayerIdsKnown == {TempId(FirstPlayer), PersistentId(FirstPlayer), ForeignId}
DisplayNameChoices == {"ann", "bob"}

\* the maps of display names: a name for some of the ids
DisplayNameMaps ==
    UNION {[ids -> DisplayNameChoices] : ids \in SUBSET PlayerIdsKnown}

InitNames ==
    /\ \E names \in DisplayNameMaps :
          hub = [NewHubWithOptions(DEFAULT_MAX_HISTORY_SIZE) EXCEPT !.DisplayNames = names]
    /\ conns = [c \in Connections |-> NoClient]
    /\ log = NoLog(Connections)
    /\ engines = <<>>
    /\ globalRandom = Null
    /\ ticks = <<>>
    /\ applied = <<>>
    /\ call = [oldId |-> Null, newId |-> Null, names |-> <<>>]

\* hub.UpdateClientId(oldId, newId); call keeps the arguments and the map
\* the call found
UpdateClientIdCall(oldId, newId) ==
    /\ hub' = [hub EXCEPT !.DisplayNames = UpdateClientId(@, oldId, newId)]
    /\ call' = [oldId |-> oldId, newId |-> newId, names |-> hub.DisplayNames]
    /\ UNCHANGED <<engines, globalRandom, ticks, applied, conns, log>>

NextNames == \E oldId, newId \in PlayerIdsKnown : UpdateClientIdCall(oldId, newId)

SpecNames == InitNames /\ [][NextNames]_vars

(***************************************************************************)
(* The fan-out to two connections: the hub of NewHub with two connections  *)
(* whose write pumps may lag behind the ticks.                             *)
(***************************************************************************)
InitFanout ==
    /\ hub = NewHubWithOptions(DEFAULT_MAX_HISTORY_SIZE)
    /\ conns = [c \in {FirstPlayer, LateJoiner} |-> NoClient]
    /\ log = NoLog({FirstPlayer, LateJoiner})
    /\ engines = <<>>
    /\ globalRandom = Null
    /\ ticks = <<>>
    /\ applied = <<>>
    /\ call = NoCall

NextFanout ==
    \/ \E c \in DOMAIN conns : Register(c)
    \/ \E c \in DOMAIN conns : ReadError(c)
    \/ \E c \in DOMAIN conns : Unregister(c)
    \/ Broadcast
    \/ TickLocked
    \/ TickSend
    \/ \E c \in DOMAIN conns : ClientIdMessage(c)
    \/ \E c \in DOMAIN conns : sendHistoryToClient(c)
    \/ \E c \in DOMAIN conns : SendDisplayNamesToClient(c)
    \/ \E c \in DOMAIN conns : WritePump(c)

SpecFanout == InitFanout /\ [][NextFanout]_vars

(***************************************************************************)
(* A session with its clients: the relay with the default history size,    *)
(* a player connected since before the first tick and a connection made    *)
(* at any later point, whose client (useWebSocket's onmessage) applies     *)
(* the messages its write pump delivers to an engine of its own.           *)
(***************************************************************************)
\* a relayed input as the engine reads it: the server's PlayerInput has no
\* up, down, left, right, which the engine then reads as undefined
FromWire(input) ==
    PlayerInput(input.playerId, FALSE, FALSE, FALSE, FALSE, input.placeBlob)
GameTickFromWire(tick) ==
    [tick |-> tick.tick, inputs |-> [i \in 1 .. Len(tick.inputs) |-> FromWire(tick.inputs[i])]]

\* case 'connect': the state the updater returns
ConnectedState(m) ==
    [createInitialGameState EXCEPT !.maxTicks = m.maxTicks, !.tickInterval = m.tickInterval]

\* the setGameState updater of a tick: processGameTick, then the game-over
\* check on its result
TickUpdater(ctx, tick) ==
    [processGameTick(ctx.s, GameTickFromWire(tick), ctx.rng) EXCEPT !.s = FlagGameOver(@)]

\* processGameHistory: the updaters of the history's ticks, from the i-th
\* on (the ticks of a history increase, none is skipped as a duplicate)
RECURSIVE processGameHistory(_, _, _)
processGameHistory(ctx, history, i) ==
    IF i > Len(history) THEN ctx
    ELSE processGameHistory(TickUpdater(ctx, history[i]), history, i + 1)

\* onmessage: the state and the generator after message m
OnMessage(ctx, m) ==
    CASE m.type = "connect" -> [ctx EXCEPT !.s = ConnectedState(m)]
      [] m.type = "tick" -> TickUpdater(ctx, m.tick)
      [] m.type = "historySync" -> processGameHistory(ctx, m.history, 1)
      [] OTHER -> ctx

\* the client of c has its state from result
Handled(c, m, result) ==
    /\ engines' = [engines EXCEPT ![c] = result.s]
    /\ globalRandom' = result.rng
    /\ log' = [log EXCEPT !.synced[c] = CASE m.type = "connect" -> FALSE
                                            [] m.type = "historySync" -> TRUE
                                            [] OTHER -> @]

\* writePump writes the next message of the sink to the socket and the
\* client's onmessage handles it
Receive(c) ==
    /\ ~hub.panicked
    /\ Len(conns[c].SendChan) > 0
    /\ conns' = [conns EXCEPT ![c].SendChan = Tail(@)]
    /\ Handled(c, Head(conns[c].SendChan),
               OnMessage([s |-> engines[c], rng |-> globalRandom], Head(conns[c].SendChan)))
    /\ UNCHANGED <<ticks, applied, call, hub>>

\* the first player has connected and announced its id, and its two
\* connect messages are written, before the first tick; the page of the
\* late joiner is loaded
InitSession ==
    /\ hub = [NewHubWithOptions(DEFAULT_MAX_HISTORY_SIZE) EXCEPT !.Clients = {FirstPlayer}]
    /\ conns = [c \in {FirstPlayer, LateJoiner} |->
                   IF c = FirstPlayer
                   THEN [NoClient EXCEPT !.ID = PersistentId(c), !.pump = "read"]
                   ELSE NoClient]
    /\ log = [NoLog({FirstPlayer, LateJoiner}) EXCEPT !.stream[FirstPlayer].on = TRUE]
    /\ engines = [c \in {LateJoiner} |-> createInitialGameState]
    /\ globalRandom = Null
    /\ ticks = <<>>
    /\ applied = [c \in {LateJoiner} |-> 0]
    /\ call = NoCall

NextSession ==
    \/ \E c \in DOMAIN conns : Register(c)
    \/ Broadcast
    \/ TickLocked
    \/ TickSend
    \/ InputMessage(FirstPlayer, Place(PersistentId(FirstPlayer)))
    \/ \E c \in DOMAIN conns : ClientIdMessage(c)
    \/ \E c \in DOMAIN conns : sendHistoryToClient(c)
    \/ \E c \in DOMAIN conns : SendDisplayNamesToClient(c)
    \/ \E c \in DOMAIN conns \ DOMAIN engines : WritePump(c)
    \/ \E c \in DOMAIN engines : Receive(c)

SpecSession == InitSession /\ [][NextSession]_vars





(***************************************************************************)
(* Properties of the engine                                                *)
(***************************************************************************)
PaintedCells(s, p) == {c \in DOMAIN s.grid.paintedBy : s.grid.paintedBy[c] = p}

AllCells(s) ==
    {c \in (0 .. GRID_SIZE - 1) \X (0 .. GRID_SIZE - 1) : Len(s.grid.content) > 0}

NonWallCells(s) ==
    {c \in AllCells(s) : CellContent(s.grid, c[1], c[2]) \notin {"wall", "breakableWall"}}

RECURSIVE SumPaintedCounts(_, _)
SumPaintedCounts(s, i) ==
    IF i > Len(s.players) THEN 0
    ELSE PaintedCount(s, s.players[i].playerId) + SumPaintedCounts(s, i + 1)

\* C6: a call whose tick number is at most the tick of the state it is
\* given returns that state unchanged (so a second call with the same tick
\* number changes nothing), and the tick of an engine never decreases.
C6_StaleTickRejected ==
    [][\A e \in DOMAIN engines :
          /\ engines'[e].tick >= engines[e].tick
          /\ (call'.engine = e /\ call'.tick <= engines[e].tick) => engines'[e] = engines[e]]_vars

\* a second call with the tick number of the state, which holds a player
\* with a bomb placed, has returned
C6_Witness_SameTickAgain ==
    \E e \in DOMAIN engines :
        /\ call.engine = e
        /\ call.tick = call.from
        /\ call.tick = engines[e].tick
        /\ engines[e].tick > 0
        /\ Len(engines[e].bombs) > 0

IsReset(s, i) ==
    /\ s.players[i].maxBombs = 1
    /\ s.players[i].explosionSize = 3
    /\ s.players[i].fuseMultiplier = 1000
    /\ s.players[i].powerUps = <<>>
    /\ PaintedCount(s, s.players[i].playerId) = 0
    /\ PaintedCells(s, s.players[i].playerId) = {}

\* the explosions that detonated in the call that returned s
Detonated(s) == {k \in 1 .. Len(s.explosions) : s.explosions[k].startedAt = s.tick}

\* C8: a player with a positive painted count who stands in the centre or
\* an arm cell of an explosion that detonates in a call is, in the state
\* that call returns, back to maxBombs 1, explosionSize 3, fuseMultiplier
\* 1.0, no power-ups, painted count 0 and no cell painted.
C8_ResetOnHit ==
    [][\A e \in DOMAIN engines :
          \A i \in 1 .. Len(engines[e].players) :
              (/\ engines'[e].tick > engines[e].tick
               /\ PaintedCount(engines[e], engines[e].players[i].playerId) > 0
               /\ \E k \in Detonated(engines'[e]) :
                     ExplosionCovers(engines'[e].explosions[k],
                                     engines[e].players[i].x, engines[e].players[i].y))
              => IsReset(engines'[e], i)]_vars

StrictLeader(s) ==
    IF \E i \in 1 .. Len(s.players) :
          /\ PaintedCount(s, s.players[i].playerId) > 0
          /\ \A j \in 1 .. Len(s.players) :
                j # i => PaintedCount(s, s.players[j].playerId)
                            < PaintedCount(s, s.players[i].playerId)
    THEN s.players[CHOOSE i \in 1 .. Len(s.players) :
                      \A j \in 1 .. Len(s.players) :
                          j # i => PaintedCount(s, s.players[j].playerId)
                                      < PaintedCount(s, s.players[i].playerId)].playerId
    ELSE Null

\* C9: the call that first flags game-over (maxTicks > 0, the record's tick
\* >= maxTicks, gameOver not yet set) sets winner to the player whose
\* painted count, as the call finds it, is strictly greater than every other
\* player's, and to null when the greatest count is shared or is 0; the
\* formula does not mention the order of the players, and the states cover
\* every order.  No other call sets gameOver or changes winner.
C9_WinnerRule ==
    [][\A e \in DOMAIN engines :
          /\ (~engines[e].gameOver /\ engines'[e].gameOver)
                <=> /\ call'.engine = e
                    /\ call'.tick > engines[e].tick
                    /\ engines[e].maxTicks > 0
                    /\ call'.tick >= engines[e].maxTicks
                    /\ ~engines[e].gameOver
          /\ (~engines[e].gameOver /\ engines'[e].gameOver)
                => engines'[e].winner = StrictLeader(engines[e])
          /\ ~(~engines[e].gameOver /\ engines'[e].gameOver)
                => engines'[e].winner = engines[e].winner]_vars

\* game-over was flagged with three players, the two inserted last sharing
\* the greatest count: nobody wins
C9_Witness_TieAtMaximum ==
    \E e \in DOMAIN engines :
        /\ engines[e].gameOver
        /\ engines[e].winner = Null
        /\ call.engine = e /\ call.from < engines[e].maxTicks
        /\ Len(engines[e].players) = 3
        /\ PaintedCount(engines[e], engines[e].players[1].playerId) = 1
        /\ PaintedCount(engines[e], engines[e].players[2].playerId) = MaxCount
        /\ PaintedCount(engines[e], engines[e].players[3].playerId) = MaxCount


\* C2: two engine instances that have applied the same records of the
\* sequence are in identical states, however their calls were interleaved
C2_Determinism ==
    \A e1, e2 \in DOMAIN engines :
        applied[e1] = applied[e2] => engines[e1] = engines[e2]

\* C3: the tick message of every record processGameTick appends to the
\* history is put on the Broadcast channel, and the fan-out enqueues every
\* message it takes from the channel on the sink of every registered client
\* whose sink has room
C3_EveryTickBroadcast ==
    [][/\ (hub.pc = "tickSend" /\ hub'.pc = "select")
             => /\ Len(hub'.Broadcast) > 0
                /\ hub'.Broadcast[Len(hub'.Broadcast)] = hub.pending[1]
       /\ (hub.pc = "select" /\ Len(hub.Broadcast) > 0 /\ hub'.Broadcast = Tail(hub.Broadcast))
             => \A c \in hub.Clients :
                   HasRoom(conns[c].SendChan, SendCap)
                      => conns'[c].SendChan = Append(conns[c].SendChan, Head(hub.Broadcast))]_vars

\* C4: the ticks enqueued on a sink after the connect message that carries
\* the announced id are covered in order from tick 0 on without gap or
\* duplicate, by a historySync first when there is one and by tick messages
\* after it
C4_LateJoinStream ==
    \A c \in DOMAIN conns :
       \A i \in 1 .. Len(log.stream[c].entries) :
          /\ log.stream[c].entries[i].type = "historySync" => i = 1
          /\ log.stream[c].entries[i].fromTick =
                IF i = 1 THEN 0 ELSE log.stream[c].entries[i - 1].toTick + 1

\* C5: the inputs AddInput accepted since the last record are the inputs
\* buffered for the next record, in arrival order, and a record carries
\* exactly the inputs accepted since the record before it
C5_InputsInNextRecord ==
    [][/\ hub'.CurrentInputs = log'.waiting
       /\ (hub.pc = "select" /\ hub'.pc = "tickSend")
             => hub'.pending[1].tick.inputs = log.waiting]_vars

\* the state of a client that was connected from the start of the session
\* and applied the tick message of every record up to tick T
Replayed(h, T) ==
    processGameHistory([s |-> ConnectedState(ConnectMessage("", h)), rng |-> Null],
                       SelectSeq(h.TickHistory, LAMBDA r : r.tick <= T), 1).s

\* C1: a client that has applied the connect message of its connection
\* and the historySync, and the tick messages that followed, holds at its
\* tick T the state of a client that was connected from the start of the
\* session and applied every tick message up to T.
C1_ReplayEquivalence ==
    \A c \in DOMAIN engines :
        log.synced[c] => engines[c] = Replayed(hub, engines[c].tick)

(***************************************************************************)
(* Properties of the relay                                                 *)
(***************************************************************************)
\* the messages on the sinks
SinkMessages == UNION {{conns[c].SendChan[i] : i \in 1 .. Len(conns[c].SendChan)} : c \in DOMAIN conns}

\* the tick numbers of a history are consecutive
Consecutive(history) ==
    \A i \in 1 .. Len(history) - 1 : history[i + 1].tick = history[i].tick + 1

\* C11: every historySync message the hub has built carries toTick -
\* fromTick + 1 records with consecutive, increasing tick numbers, and so
\* would a message built from the history of any state, after eviction and
\* after a reset.
C11_HistoryComplete ==
    /\ Consecutive(hub.TickHistory)
    /\ \A m \in SinkMessages :
          m.type = "historySync" =>
             /\ m.toTick - m.fromTick + 1 = Len(m.history)
             /\ Consecutive(m.history)

\* a historySync built after the eviction of tick 0 is on a sink, the
\* session was reset since and the history of the new session has begun
C11_Witness_EvictedThenReset ==
    /\ \E m \in SinkMessages : m.type = "historySync" /\ m.fromTick > 0 /\ Len(m.history) > 1
    /\ ~hub.isResetting
    /\ Len(hub.TickHistory) > 0
    /\ hub.TickHistory[1].tick = 0

\* C12: a non-empty history begins with tick 0 of the session, and every
\* historySync on a sink has fromTick 0, also during the reset countdown.
C12_HistoryFromZero ==
    /\ Len(hub.TickHistory) > 0 => hub.TickHistory[1].tick = 0
    /\ \A m \in SinkMessages : m.type = "historySync" => m.fromTick = 0

\* C13: the fan-out of a message removes from the client set and closes
\* exactly the clients whose sink is full, enqueues the message on the sink
\* of every other client, leaves the unconnected alone, and is never kept
\* waiting: it can be taken whenever the loop is at its select with a
\* message on Broadcast.
C13_BestEffortDelivery ==
    /\ [][(Len(hub.Broadcast) > 0 /\ hub'.Broadcast = Tail(hub.Broadcast)) =>
             /\ \A c \in hub.Clients :
                   IF HasRoom(conns[c].SendChan, SendCap)
                   THEN /\ conns'[c] = [conns[c] EXCEPT !.SendChan = Append(@, Head(hub.Broadcast))]
                        /\ c \in hub'.Clients
                   ELSE /\ conns'[c] = [conns[c] EXCEPT !.closed = TRUE]
                        /\ c \notin hub'.Clients
             /\ \A c \in DOMAIN conns \ hub.Clients : conns'[c] = conns[c]
             /\ hub'.Clients \subseteq hub.Clients]_vars
    /\ []((~hub.panicked /\ hub.pc = "select" /\ Len(hub.Broadcast) > 0) => ENABLED Broadcast)

\* a fan-out has removed a client with a full sink, closing it, and has
\* enqueued its tick message on the sink of the other client
C13_Witness_OneClientDropped ==
    \E c1, c2 \in DOMAIN conns :
        /\ conns[c1].closed /\ c1 \notin hub.Clients /\ conns[c1].pump # "done"
        /\ Len(conns[c1].SendChan) = SendCap
        /\ c2 \in hub.Clients /\ ~conns[c2].closed
        /\ Len(conns[c2].SendChan) > 0
        /\ conns[c2].SendChan[Len(conns[c2].SendChan)].type = "tick"
        /\ \A i \in 1 .. SendCap :
              conns[c1].SendChan[i] # conns[c2].SendChan[Len(conns[c2].SendChan)]

\* C14: a countdown is started (timer and broadcaster) by the call of
\* processGameTick that finds the tick counter at the session's max ticks
\* with no countdown pending, by that call only, and never by a step that
\* finds the counter below max ticks or a countdown pending.
C14_CountdownAtMaxTicks ==
    [][/\ (hub.pc = "select" /\ hub'.pc = "tickSend" /\ ~hub.isResetting
                /\ hub.CurrentTick >= hub.maxHistorySize)
            => (hub'.isResetting /\ hub'.resetTimer /\ hub'.countdown = ResetTimeoutSec)
       /\ ((~hub.isResetting /\ hub'.isResetting) \/ hub'.countdown > hub.countdown)
            => /\ hub.pc = "select" /\ hub'.pc = "tickSend"
               /\ ~hub.isResetting
               /\ hub.CurrentTick = hub.maxHistorySize]_vars

\* processGameTick is in a call that found the counter above max ticks
\* with the countdown of the session pending and started no second one
C14_Witness_TickWhilePending ==
    /\ hub.pc = "tickSend"
    /\ hub.isResetting
    /\ hub.CurrentTick > hub.maxHistorySize + 1
    /\ hub.pending[1].tick.tick > hub.maxHistorySize
    /\ hub.countdown = 0

\* C15: resetGameSession leaves the tick counter 0, the history and the
\* input buffer empty, isResetting false and no timer, and enqueues a
\* connect message with the client's id and the session's max ticks and
\* tick interval on the sink of every connected client; the record a call
\* of processGameTick emits is numbered by the counter, so the next is 0.
C15_ResetSession ==
    [][/\ (hub.resetChan /\ ~hub'.resetChan) =>
             /\ hub'.CurrentTick = 0
             /\ hub'.TickHistory = <<>>
             /\ hub'.CurrentInputs = <<>>
             /\ ~hub'.isResetting
             /\ ~hub'.resetTimer
             /\ \A c \in hub.Clients :
                   conns'[c].SendChan =
                      Append(conns[c].SendChan,
                             [ type |-> "connect", playerId |-> conns[c].ID,
                               maxTicks |-> hub.maxHistorySize,
                               tickInterval |-> hub.tickInterval ])
       /\ (hub.pc = "select" /\ hub'.pc = "tickSend") =>
             hub'.pending[1].tick.tick = hub.CurrentTick]_vars

\* C16: the tick messages enqueued on a client's sink after the connect
\* message of a reset are those of the new session: tick 0, then the
\* numbers increasing by one.
C16_SessionBoundary ==
    \A c \in DOMAIN conns :
        log.session[c].on =>
           \A i \in 1 .. Len(log.session[c].ticks) : log.session[c].ticks[i] = i - 1

\* C17: whenever the tick counter has reached max ticks the hub later runs
\* resetGameSession and is Running with tick counter 0 and no timer, in
\* every session: the countdown of a following session starts and
\* completes again and again.
C17_ResetCycleLive ==
    /\ (hub.CurrentTick >= hub.maxHistorySize)
          ~> (hub.CurrentTick = 0 /\ ~hub.isResetting /\ ~hub.resetTimer /\ ~hub.resetChan)
    /\ []<>hub.isResetting

\* in a session that began with a reset the counter has reached max ticks
\* again and the timer of the new countdown has expired
C17_Witness_SecondCountdown ==
    /\ \E c \in DOMAIN conns : log.session[c].on /\ Len(log.session[c].ticks) > 0
    /\ hub.isResetting
    /\ hub.resetChan
    /\ hub.countdown <= 0

\* C18: broadcastCountdown hands a reset message to the Broadcast channel
\* only while the hub is in its countdown (isResetting), never before a
\* countdown has started or after resetGameSession has run, and a countdown
\* starts only when no broadcaster of an earlier one is still running.
C18_ResetMessagesInCountdown ==
    [][/\ (hub.countdown >= 0 /\ hub'.countdown = hub.countdown - 1) => hub.isResetting
       /\ (~hub.isResetting /\ hub'.isResetting) => hub.countdown < 0]_vars

\* C19: an input message is accepted whatever player id it carries, the
\* input appended to the buffer carries the id its connection has at that
\* moment, and a record carries the inputs of the buffer as they are.
C19_IdentityCorrection ==
    [][/\ \A c \in DOMAIN conns : \A written \in WrittenIds(c) :
             (~hub.panicked /\ conns[c].pump = "read" /\ log.inputs < MaxInputs)
                => ENABLED InputMessage(c, Place(written))
       /\ hub'.CurrentInputs # hub.CurrentInputs /\ hub'.CurrentInputs # <<>> =>
             \E c \in DOMAIN conns :
                /\ conns[c].pump = "read"
                /\ hub'.CurrentInputs =
                      Append(hub.CurrentInputs,
                             [playerId |-> conns[c].ID, direction |-> Null, placeBlob |-> TRUE])
       /\ (hub.pc = "select" /\ hub'.pc = "tickSend") =>
             /\ hub'.TickHistory[Len(hub'.TickHistory)].inputs = hub.CurrentInputs
             /\ hub'.pending[1].tick.inputs = hub.CurrentInputs]_vars

\* a record of the history holds an input under the temporary id of its
\* connection, which no client writes: the id was corrected and the input
\* forwarded
C19_Witness_CorrectedInHistory ==
    \E c \in DOMAIN conns :
       \E i \in 1 .. Len(hub.TickHistory) :
          \E j \in 1 .. Len(hub.TickHistory[i].inputs) :
             hub.TickHistory[i].inputs[j].playerId = TempId(c)

\* C20: after UpdateClientId(oldId, newId) on a map in which oldId has a
\* display name, newId has that name, and an oldId other than newId has
\* no entry.
C20_NameTransferred ==
    call.oldId \in DOMAIN call.names =>
       /\ call.newId \in DOMAIN hub.DisplayNames
       /\ hub.DisplayNames[call.newId] = call.names[call.oldId]
       /\ call.oldId # call.newId => call.oldId \notin DOMAIN hub.DisplayNames

\* C21: a call of UpdateDisplayName stores the name under the id of the
\* connection and puts a displayName message with the whole map of that
\* moment on the Broadcast channel, and the fan-out enqueues a displayName
\* message on the sink of every registered client whose sink has room.
C21_NameUpdateBroadcast ==
    [][/\ \A c \in DOMAIN conns :
             (conns[c].pump = "read" /\ conns'[c].pump = "broadcastNames")
                => conns[c].ID \in DOMAIN hub'.DisplayNames
       /\ \A c \in DOMAIN conns :
             (conns[c].pump = "broadcastNames" /\ conns'[c].pump = "read")
                => /\ Len(hub'.Broadcast) > 0
                   /\ hub'.Broadcast[Len(hub'.Broadcast)] =
                         [type |-> "displayName", displayNames |-> hub.DisplayNames]
       /\ (hub.pc = "select" /\ Len(hub.Broadcast) > 0 /\ hub'.Broadcast = Tail(hub.Broadcast)
              /\ Head(hub.Broadcast).type = "displayName")
             => \A c \in hub.Clients :
                   HasRoom(conns[c].SendChan, SendCap)
                      => conns'[c].SendChan = Append(conns[c].SendChan, Head(hub.Broadcast))]_vars

\* C22: no pump sends on a sink that the Run loop has closed: the panic of
\* a send on a closed channel is never reached.
C22_NoSendOnClosedSink == ~hub.panicked

\* C23: a sink is closed only in the step that removes its client from the
\* client set, and a client is removed only with its sink being closed, so
\* a closed sink belongs to no registered client and is never closed again
\* or reopened; a removed client is not registered again and a fan-out
\* leaves its sink as it is; the Unregister case changes no other client,
\* and a fan-out removes no client whose sink has room.
C23_ClosedOnce ==
    /\ [](\A c \in DOMAIN conns : conns[c].closed => c \notin hub.Clients)
    /\ [][\A c \in DOMAIN conns :
             /\ conns[c].closed => conns'[c].closed
             /\ (~conns[c].closed /\ conns'[c].closed)
                   => (c \in hub.Clients /\ c \notin hub'.Clients)
             /\ (c \in hub.Clients /\ c \notin hub'.Clients)
                   => (~conns[c].closed /\ conns'[c].closed)
             /\ (c \notin hub.Clients /\ conns[c].pump # "idle")
                   => /\ c \notin hub'.Clients
                      /\ (Len(hub.Broadcast) > 0 /\ hub'.Broadcast = Tail(hub.Broadcast))
                            => conns'[c].SendChan = conns[c].SendChan
             /\ (conns[c].pump = "unregister" /\ conns'[c].pump = "done")
                   => \A d \in DOMAIN conns \ {c} :
                         /\ conns'[d] = conns[d]
                         /\ d \in hub'.Clients <=> d \in hub.Clients
             /\ (c \in hub.Clients /\ HasRoom(conns[c].SendChan, SendCap))
                   => (c \in hub'.Clients \/ conns[c].pump = "unregister")]_vars

\* the fan-out has removed a client with a full sink and closed the sink,
\* the client's read pump has since left its loop and its Unregister is
\* about to be taken, while the other client is registered with an open sink
C23_Witness_UnregisterAfterFailedBroadcast ==
    \E c1, c2 \in DOMAIN conns :
        /\ conns[c1].closed /\ c1 \notin hub.Clients
        /\ conns[c1].pump = "unregister"
        /\ c2 \in hub.Clients /\ ~conns[c2].closed

\* C24: a message that does not decode or whose type no case names changes
\* nothing of the hub (input buffer, tick counter, history, display names,
\* client set) and nothing of the connection, which stays registered with
\* its read pump in its loop; an input message is accepted from a read pump
\* in its loop however many messages were dropped before, and is appended
\* to the input buffer.
C24_BadMessageDropped ==
    /\ [][/\ log'.dropped # log.dropped => (hub' = hub /\ conns' = conns)
          /\ \A c \in DOMAIN conns :
                (log.dropped > 0 /\ log'.inputs # log.inputs /\ conns[c].pump = "read")
                   => hub'.CurrentInputs =
                         Append(hub.CurrentInputs,
                                [playerId |-> conns[c].ID, direction |-> Null, placeBlob |-> TRUE])]_vars
    /\ [](\A c \in DOMAIN conns :
             (~hub.panicked /\ conns[c].pump = "read" /\ log.inputs < MaxInputs)
                => ENABLED InputMessage(c, Place(PersistentId(c))))

\* every message that can be dropped was dropped, the connection is still
\* registered with its read pump in its loop, and an input it sent after
\* the last of them is in the last record of the history
C24_Witness_InputAfterDropped ==
    \E c \in DOMAIN conns :
        /\ log.dropped = MaxDropped
        /\ log.afterDrop > 0
        /\ c \in hub.Clients /\ conns[c].pump = "read" /\ ~conns[c].closed
        /\ hub.CurrentInputs = <<>>
        /\ Len(hub.TickHistory) > 0
        /\ Len(hub.TickHistory[Len(hub.TickHistory)].inputs) = 1

\* C25: a call of processGameTick completes and leaves at most
\* maxHistorySize records in the history; it appends its record at the
\* end, after dropping the oldest record when the history was at capacity,
\* and keeps the other records in their order.
C25_HistoryBounded ==
    /\ [](Len(hub.TickHistory) <= hub.maxHistorySize)
    /\ [][(hub.pc = "select" /\ log'.emitted = log.emitted + 1) =>
             /\ ~hub'.panicked
             /\ hub'.pc = "tickSend"
             /\ hub'.TickHistory =
                   Append(IF Len(hub.TickHistory) >= hub.maxHistorySize
                          THEN SubSeq(hub.TickHistory, 2, Len(hub.TickHistory))
                          ELSE hub.TickHistory,
                          [tick |-> hub.CurrentTick, inputs |-> hub.CurrentInputs])]_vars

(***************************************************************************)
(* Properties of bombs, explosions and power-ups                           *)
(***************************************************************************)
\* the cell of a position
SameCell(a, b) == getCellCoords(a.x, a.y) = getCellCoords(b.x, b.y)

\* the explosion covers the cell of the position: its centre or an arm
CoveredBy(explosion, b) ==
    \/ SameCell(explosion, b)
    \/ \E k \in 1 .. Len(explosion.arms) : SameCell(explosion.arms[k], b)

\* the explosions that started in the call that returned the state
StartedNow(s) == {k \in 1 .. Len(s.explosions) : s.explosions[k].startedAt = s.tick}

\* C26: when a call detonates a bomb, every other bomb of the active list
\* the call found, in whatever place of the list, whose cell the new
\* explosion covers is detonated by the same call: it is in the list no
\* more (a bomb in its cell was placed by the call) and an explosion at
\* its cell started at the tick of the call.
C26_ChainReaction ==
    [][\A e \in DOMAIN engines :
          \A k \in StartedNow(engines'[e]) :
             \A i \in 1 .. Len(engines[e].bombs) :
                (engines'[e].tick > engines[e].tick
                    /\ CoveredBy(engines'[e].explosions[k], engines[e].bombs[i]))
                   => /\ \A j \in 1 .. Len(engines'[e].bombs) :
                            SameCell(engines'[e].bombs[j], engines[e].bombs[i])
                               => engines'[e].bombs[j].placedAt = engines'[e].tick
                      /\ \E n \in StartedNow(engines'[e]) :
                            SameCell(engines'[e].explosions[n], engines[e].bombs[i])]_vars

\* the cell is that of the centre or of an arm of an explosion of the state
\* that is not explosion n
CoveredByOther(s, n, cell) ==
    \E k \in 1 .. Len(s.explosions) :
        /\ k # n
        /\ \/ getCellCoords(s.explosions[k].x, s.explosions[k].y) = cell
           \/ \E a \in 1 .. Len(s.explosions[k].arms) :
                 getCellCoords(s.explosions[k].arms[a].x, s.explosions[k].arms[a].y) = cell

\* the centre and arm cells of explosion n of the state that are empty and
\* that no other explosion covers are painted by its owner
PaintedByOwner(s, n) ==
    \A cell \in {getCellCoords(s.explosions[n].x, s.explosions[n].y)}
                \cup {getCellCoords(s.explosions[n].arms[a].x, s.explosions[n].arms[a].y) :
                         a \in 1 .. Len(s.explosions[n].arms)} :
        (CellContent(s.grid, cell.cellX, cell.cellY) = "empty" /\ ~CoveredByOther(s, n, cell))
           => CellPaintedBy(s.grid, cell.cellX, cell.cellY) = s.explosions[n].playerId

CellAt(centre, dir, dist) ==
    [cellX |-> centre.cellX + dir[1] * dist, cellY |-> centre.cellY + dir[2] * dist]

\* the content of a cell of the grid, "wall" beyond the grid's edge
ContentAt(s, cell) ==
    IF InGrid(cell.cellX, cell.cellY) THEN CellContent(s.grid, cell.cellX, cell.cellY) ELSE "wall"

\* the cells an arm of the given radius has on the grid of state s: the
\* cells up to the radius that are no solid wall and have only empty cells
\* between them and the centre
ArmCellsOn(s, centre, dir, radius) ==
    {CellAt(centre, dir, k) : k \in {k \in 1 .. radius :
        /\ ContentAt(s, CellAt(centre, dir, k)) # "wall"
        /\ \A j \in 1 .. k - 1 : ContentAt(s, CellAt(centre, dir, j)) = "empty"}}

C30_BoostsExpire ==
    \A e \in DOMAIN engines :
       \A i \in 1 .. Len(engines[e].players) :
          LET player == engines[e].players[i]
          IN  /\ (player.speedBoostEndTick > 0 /\ engines[e].tick >= player.speedBoostEndTick)
                    => player.speedMultiplier = 1000
              /\ (player.shieldEndTick > 0 /\ engines[e].tick >= player.shieldEndTick)
                    => ~player.hasShield

\* C29: a breakable wall that a call opens at a position that spawns a
\* power-up leaves the power-up, spawned at the tick of the call, in the
\* returned state; a power-up that a call removes without a player standing
\* in its cell is at least POWERUP_IMMUNITY_DURATION ticks old, an active
\* explosion of the returned state covers it, and no explosion that started
\* at the tick it was spawned at is active any more.
C29_PowerUpImmunity ==
    [][\A e \in DOMAIN engines :
          LET before == engines[e]
              after == engines'[e]
          IN  after.tick > before.tick =>
                /\ \A x, y \in 0 .. GRID_SIZE - 1 :
                      (/\ CellContent(before.grid, x, y) = "breakableWall"
                       /\ CellContent(after.grid, x, y) = "empty"
                       /\ ((x * 1987) + (y * 27689)) % 10000 < 4000)
                         => \E k \in 1 .. Len(after.powerUps) :
                               /\ getCellCoords(after.powerUps[k].x, after.powerUps[k].y)
                                     = [cellX |-> x, cellY |-> y]
                               /\ after.powerUps[k].spawnedAt = after.tick
                /\ \A u \in 1 .. Len(before.powerUps) :
                      (/\ \A k \in 1 .. Len(after.powerUps) : after.powerUps[k] # before.powerUps[u]
                       /\ \A i \in 1 .. Len(before.players) :
                             ~SameCell(before.players[i], before.powerUps[u]))
                         => /\ after.tick - before.powerUps[u].spawnedAt >= 20
                            /\ \E n \in 1 .. Len(after.explosions) :
                                  CoveredBy(after.explosions[n], before.powerUps[u])
                            /\ \A n \in 1 .. Len(after.explosions) :
                                  after.explosions[n].startedAt # before.powerUps[u].spawnedAt]_vars

\* the wall was opened and left a power-up that nobody collected; an
\* explosion that has just started covers its cell and has removed it
C29_Witness_RemovedAfterImmunity ==
    \E e \in DOMAIN engines :
        /\ CellContent(engines[e].grid, 21, 12) = "empty"
        /\ engines[e].powerUps = <<>>
        /\ \A i \in 1 .. Len(engines[e].players) : engines[e].players[i].powerUps = <<>>
        /\ \E n \in StartedNow(engines[e]) :
              CoveredBy(engines[e].explosions[n], [x |-> CellCentre(21), y |-> CellCentre(12)])

\* C31: in the state a call returns no player stands in the cell of a
\* power-up: a player whose movement in the call brought them into the
\* power-up's cell has collected it in that call.
C31_CollectedOnArrival ==
    \A e \in DOMAIN engines :
        \A i \in 1 .. Len(engines[e].players), k \in 1 .. Len(engines[e].powerUps) :
            ~SameCell(engines[e].players[i], engines[e].powerUps[k])

\* the bombs of s that lie in cell c
BombsIn(s, c) == {k \in 1 .. Len(s.bombs) : getCellCoords(s.bombs[k].x, s.bombs[k].y) = c}

\* the bombs of s that were placed at the tick of s
PlacedNow(s) == {k \in 1 .. Len(s.bombs) : s.bombs[k].placedAt = s.tick}

\* no fuse of a bomb of s has run out at the given tick
Quiet(s, tick) ==
    \A k \in 1 .. Len(s.bombs) :
        (tick - s.bombs[k].placedAt) * 1000 < BOMB_TIMER * s.bombs[k].fuseMultiplier

\* no input before the last asks for a bomb
LastMayPlace(inputs) == \A k \in 1 .. Len(inputs) - 1 : ~inputs[k].placeBlob

\* C32: in a call whose inputs are those of one player, the last of them
\* the only one that may ask for a bomb, a bomb is added if and only if the
\* last input asks for one, the player's bombsPlaced is below maxBombs, no
\* bomb lies in the player's cell and the cell is in bounds and empty; the
\* bomb is last in the list, at the centre of that cell, with placedAt the
\* tick of the call and the player's fuse multiplier, and bombsPlaced has
\* grown by 1; otherwise, when no fuse ran out in the call, the bomb list
\* and bombsPlaced are as before.  No two bombs lie in one cell.
C32_BombPlacement ==
    [][\A e \in DOMAIN engines :
          LET before == engines[e]
              after == engines'[e]
              inputs == ticks'[1].inputs
          IN  after.tick > before.tick =>
                /\ \A k, n \in 1 .. Len(after.bombs) :
                      getCellCoords(after.bombs[k].x, after.bombs[k].y)
                         = getCellCoords(after.bombs[n].x, after.bombs[n].y) => k = n
                /\ (inputs = <<>> \/ (LastMayPlace(inputs) /\ ~inputs[Len(inputs)].placeBlob)) =>
                      /\ PlacedNow(after) = {}
                      /\ Quiet(before, after.tick) =>
                            /\ after.bombs = before.bombs
                            /\ \A i \in 1 .. Len(after.players) :
                                  after.players[i].bombsPlaced = before.players[i].bombsPlaced
                /\ (inputs # <<>> /\ LastMayPlace(inputs) /\ inputs[Len(inputs)].placeBlob) =>
                      LET i == CHOOSE i \in 1 .. Len(after.players) :
                                  after.players[i].playerId = inputs[Len(inputs)].playerId
                          player == after.players[i]
                          c == getCellCoords(player.x, player.y)
                          bomb == [ playerId |-> player.playerId,
                                    x |-> ((c.cellX - (GRID_SIZE \div 2)) * UNIT) + (UNIT \div 2),
                                    y |-> ((c.cellY - (GRID_SIZE \div 2)) * UNIT) + (UNIT \div 2),
                                    placedAt |-> after.tick,
                                    exploded |-> FALSE,
                                    fuseMultiplier |-> player.fuseMultiplier ]
                          free == /\ c.cellX \in 0 .. GRID_SIZE - 1
                                  /\ c.cellY \in 0 .. GRID_SIZE - 1
                                  /\ after.grid.content[c.cellY + 1][c.cellX + 1] = "empty"
                      IN  /\ PlacedNow(after) \subseteq {Len(after.bombs)}
                          /\ PlacedNow(after) # {} =>
                                /\ after.bombs[Len(after.bombs)] = bomb
                                /\ BombsIn(after, c) = {Len(after.bombs)}
                                /\ player.bombsPlaced <= player.maxBombs
                                /\ free
                          /\ PlacedNow(after) = {} =>
                                \/ player.bombsPlaced >= player.maxBombs
                                \/ BombsIn(after, c) # {}
                                \/ ~free
                          /\ Quiet(before, after.tick) =>
                                LET allowed == /\ before.players[i].bombsPlaced < player.maxBombs
                                               /\ BombsIn(before, c) = {}
                                               /\ free
                                IN  /\ allowed =>
                                          /\ after.bombs = Append(before.bombs, bomb)
                                          /\ player.bombsPlaced = before.players[i].bombsPlaced + 1
                                    /\ ~allowed =>
                                          /\ after.bombs = before.bombs
                                          /\ player.bombsPlaced = before.players[i].bombsPlaced
                                    /\ \A j \in 1 .. Len(after.players) :
                                          j # i => after.players[j].bombsPlaced
                                                      = before.players[j].bombsPlaced]_vars

\* the first player has a slot left and asked for a second bomb in the cell
\* of its first bomb, which is still the only one
C32_Witness_RefusedOnBomb ==
    \E e \in DOMAIN engines :
        /\ call.tick = engines[e].tick
        /\ ticks = << [tick |-> call.tick, inputs |-> <<Place("p1")>>] >>
        /\ engines[e].players[1].maxBombs = 2
        /\ engines[e].players[1].bombsPlaced = 1
        /\ Len(engines[e].bombs) = 1
        /\ engines[e].bombs[1].placedAt < engines[e].tick
        /\ SameCell(engines[e].players[1], engines[e].bombs[1])

\* C40: no player's bombsPlaced exceeds the player's maxBombs.
C40_BombsWithinMax ==
    \A e \in DOMAIN engines : \A i \in 1 .. Len(engines[e].players) :
        engines[e].players[i].bombsPlaced <= engines[e].players[i].maxBombs

\* C33: a call that returns a state with gameOver set has created no
\* player, has changed no player's position or facing and has placed no
\* bomb, whatever its inputs; bombs whose fuse has run out have detonated.
C33_NoInputsAfterGameOver ==
    [][\A e \in DOMAIN engines :
          LET before == engines[e]
              after == engines'[e]
          IN  (after.tick > before.tick /\ after.gameOver) =>
                /\ Len(after.players) = Len(before.players)
                /\ \A i \in 1 .. Len(before.players) :
                      /\ after.players[i].playerId = before.players[i].playerId
                      /\ after.players[i].x = before.players[i].x
                      /\ after.players[i].y = before.players[i].y
                      /\ after.players[i].lastDirection = before.players[i].lastDirection
                /\ PlacedNow(after) = {}
                /\ Quiet(after, after.tick)
                /\ Quiet(before, after.tick) => after.bombs = before.bombs]_vars

\* the game is over, the call had an input of a player who moves and a
\* bomb placed before the end has detonated in it
C33_Witness_MoveAfterGameOver ==
    \E e \in DOMAIN engines :
        /\ engines[e].gameOver
        /\ call.tick = engines[e].tick
        /\ ticks = << [tick |-> call.tick, inputs |-> Repeat(Right("p1"), 5)] >>
        /\ StartedNow(engines[e]) # {}

\* C39: once a state has gameOver set, the state of every later call has
\* gameOver set and the same winner.
C39_GameOverStable ==
    [][\A e \in DOMAIN engines :
          engines[e].gameOver =>
              /\ engines'[e].gameOver
              /\ engines'[e].winner = engines[e].winner]_vars

\* the game is over with the first player as winner, and the second player
\* holds more cells than the first by now
C39_Witness_LeaderChangedAfterGameOver ==
    \E e \in DOMAIN engines :
        /\ engines[e].gameOver
        /\ engines[e].winner = "p1"
        /\ engines[e].tick > engines[e].maxTicks
        /\ PaintedCount(engines[e], "p2") > PaintedCount(engines[e], "p1")

\* C34: the centre of every player lies in a cell of the grid whose
\* content is empty, and so does the default position (0, 0) of a new
\* player once the grid exists.
C34_PlayersOnEmptyCells ==
    \A e \in DOMAIN engines :
        /\ \A i \in 1 .. Len(engines[e].players) :
              LET cellX == (engines[e].players[i].x + (GRID_SIZE \div 2) * UNIT) \div UNIT
                  cellY == (engines[e].players[i].y + (GRID_SIZE \div 2) * UNIT) \div UNIT
              IN  /\ cellX \in 0 .. GRID_SIZE - 1
                  /\ cellY \in 0 .. GRID_SIZE - 1
                  /\ engines[e].grid.content[cellY + 1][cellX + 1] = "empty"
        /\ Len(engines[e].grid.content) > 0 =>
              engines[e].grid.content[(GRID_SIZE \div 2) + 1][(GRID_SIZE \div 2) + 1] = "empty"

\* a player who joined faces right and stands where a further step to the
\* right does not pass the collision check
C34_Witness_StoppedAtWall ==
    \E e \in DOMAIN engines : \E i \in 1 .. Len(engines[e].players) :
        /\ engines[e].players[i].lastDirection = "right"
        /\ ~canMoveTo(engines[e].grid,
                      engines[e].players[i].x + moveAmount(engines[e].players[i]),
                      engines[e].players[i].y)

\* C35: every player has 1 <= maxBombs <= 5, 3 <= explosionSize <= 6,
\* 0.5 <= fuseMultiplier <= 1.0 and 1.0 <= speedMultiplier <= 1.3.
C35_ClampedStats ==
    \A e \in DOMAIN engines : \A i \in 1 .. Len(engines[e].players) :
        /\ engines[e].players[i].maxBombs \in 1 .. 5
        /\ engines[e].players[i].explosionSize \in 3 .. 6
        /\ engines[e].players[i].fuseMultiplier \in 500 .. 1000
        /\ engines[e].players[i].speedMultiplier \in 1000 .. 1300

\* a player who collected five power-ups of one kind: the limit of that
\* kind has applied
C35_Witness_CollectedPastLimit ==
    \E e \in DOMAIN engines : \E k \in DOMAIN PowerUpTypes :
        /\ Len(engines[e].players[1].powerUps) = MaxCollected
        /\ \A n \in 1 .. MaxCollected : engines[e].players[1].powerUps[n] = PowerUpTypes[k]
        /\ PowerUpTypes[k] \in {"extraBomb", "longerSplat", "shorterFuse", "speedBoost"}

\* C36: a step puts a historySync message on a connection's sink only when
\* the read pump of that connection is in its clientId case, after the
\* connect message; the clientId case puts on the sink the connect message
\* with the new id, then the historySync message when the history is not
\* empty, then the display names when there are any.
C36_ResyncOnClientId ==
    [][\A c \in DOMAIN conns :
          LET sink == conns[c].SendChan
              after == conns'[c].SendChan
          IN  /\ (/\ Len(after) > 0
                  /\ after[Len(after)].type = "historySync"
                  /\ after # sink /\ after # Tail(sink))
                    => conns[c].pump = "history"
              /\ (conns[c].pump = "read" /\ conns[c].ID # conns'[c].ID)
                    => after = Append(sink, ConnectMessage(conns'[c].ID, hub))
              /\ (conns[c].pump = "history" /\ conns'[c].pump = "names"
                    /\ Len(hub.TickHistory) > 0)
                    => after = Append(sink, HistorySyncMessage(hub.TickHistory))
              /\ (conns[c].pump = "names" /\ conns'[c].pump = "read"
                    /\ DOMAIN hub.DisplayNames # {})
                    => after = Append(sink, DisplayNameUpdateMessage(hub.DisplayNames))]_vars

\* the tick records a message of the relay carries
RecordsOf(m) ==
    CASE m.type = "tick" -> <<m.tick>>
      [] m.type = "historySync" -> m.history
      [] OTHER -> <<>>

\* C37: when a client whose engine state is the initial one receives the
\* records of a session from its first on, every record has a tick number
\* above that of the state it is applied to, the first one included, so
\* none is rejected as stale, and every player with an input in the first
\* record is in the game afterwards.
C37_FirstTickAccepted ==
    [][\A c \in DOMAIN engines :
          (/\ Len(conns[c].SendChan) > 0
           /\ conns'[c].SendChan = Tail(conns[c].SendChan)
           /\ engines[c].tick = 0
           /\ ~engines[c].randomInitialized
           /\ RecordsOf(Head(conns[c].SendChan)) # <<>>
           /\ RecordsOf(Head(conns[c].SendChan))[1].tick = 0)
             => LET records == RecordsOf(Head(conns[c].SendChan))
                IN  /\ \A k \in 1 .. Len(records) :
                          records[k].tick > (IF k = 1 THEN engines[c].tick
                                             ELSE records[k - 1].tick)
                    /\ engines'[c].tick = records[Len(records)].tick
                    /\ engines'[c].randomInitialized
                    /\ \A n \in 1 .. Len(records[1].inputs) :
                          \E i \in 1 .. Len(engines'[c].players) :
                              engines'[c].players[i].playerId = records[1].inputs[n].playerId]_vars

\* C38: after newState = processGameTick(s, t) the state s that was passed,
\* read through the reference the caller kept, has the value it had before
\* the call.
C38_PreviousStateUntouched ==
    [][engines'["previous"] = engines["A"]]_vars
====
